---------------------------- MODULE Spec2Model ----------------------------
(***************************************************************************)
(* Model of the Message_IX repository: the MESSAGE-IX runner               *)
(* (scripts/messageix_final_working.py), the two-region scenario model     *)
(* (scripts/run_model.py) and the file loaders of the reporting layer      *)
(* (dashboard.py, scripts/data_analysis.py, scripts/visualize_results.py). *)
(*                                                                         *)
(* One behaviour is one invocation of one entry point (variable script).   *)
(* Real numbers are fixed-point integers; the unit of every quantity is    *)
(* stated where the quantity is defined.  External calls (the optimization *)
(* framework, the random generator, the file system's contents) are inputs *)
(* drawn from bounded sets.                                                *)
(***************************************************************************)
EXTENDS Integers, Sequences, FiniteSets, TLC

VARIABLES
    script,              \* the entry point this behaviour runs
    fs,                  \* paths of the files that exist
    \* ---- scripts/messageix_final_working.py
    m_pc,                \* position of main()
    solved_scenario,     \* self.solved_scenario: what the framework returned
    solve_calls,         \* number of invocations of Scenario.solve()
    results,             \* the dict returned by extract_results
    dashboard_data,      \* the content written to results/dashboard_data.json
    \* ---- scripts/run_model.py
    s_pc,                \* position of run_scenario_comparison / run_scenario_analysis
    run_no,              \* which scenario of the comparison is running (1, 2)
    scenario_name,       \* self.scenario_name of the model that is running
    years,               \* self.years of the model that is running
    seed_stream,         \* the normal deviates numpy produces after seed(42)
    np_random,           \* numpy's global generator: stream and position
    demand_given,        \* per year, what the demand table handed to the loop holds
    demand_data,         \* demand_data of run_scenario_analysis
    renewable_data,      \* renewable_data of run_scenario_analysis
    year_idx,            \* index into self.years of the loop of run_scenario_analysis
    scenario_results,    \* scenario_results of run_scenario_analysis
    scenarios_results,   \* scenarios_results of run_scenario_comparison
    \* ---- a single method call on a constructed TwoRegionEnergyModel
    call,                \* the method called and its arguments
    ret,                 \* what the call returned
    passes,              \* the generation passes called so far: the output of each,
                         \* and whether it found the generator on a foreign stream
    \* ---- dashboard.py, scripts/data_analysis.py, scripts/visualize_results.py
    l_pc,                \* how many times the loader has run
    load_out             \* what each run of the loader produced

main_vars == <<m_pc, solved_scenario, solve_calls, results, dashboard_data>>

scen_vars == <<s_pc, run_no, scenario_name, years, seed_stream, np_random,
               demand_given, demand_data, renewable_data, year_idx,
               scenario_results, scenarios_results>>

call_vars == <<call, ret, passes>>

load_vars == <<l_pc, load_out>>

vars == <<script, fs, main_vars, scen_vars, call_vars, load_vars>>

None == [kind |-> "None"]

\* dict.get(key, default) and row.get(key, default)
Get(d, k, default) == IF k \in DOMAIN d THEN d[k] ELSE default

RECURSIVE SumSeq(_)
SumSeq(s) == IF s = <<>> THEN 0 ELSE Head(s) + SumSeq(Tail(s))

\* every sequence over S of length 0..n
SeqsUpTo(S, n) == UNION {[1..k -> S] : k \in 0..n}

(***************************************************************************)
(* scripts/messageix_final_working.py                                      *)
(***************************************************************************)

\* bound: the largest number of rows of a solved-variable table
MaxRows == 2

MxRegions == <<"Industrial", "Residential">>
MxTechnologies == <<"gas_plant", "wind_plant", "solar_plant">>
MxYears == <<2025, 2030, 2040, 2050>>

\* Rows a solved-variable table (CAP_NEW, ACT) may hold; lvl in 1/1000 GW(a).
\* A row need not have every column: extract_results reads rows with row.get.
RowPool ==
    { [node_loc |-> "Industrial", technology |-> "wind_plant",
       year_vtg |-> 2030, year_act |-> 2030, lvl |-> 120],
      [lvl |-> 75] }

\* What the framework can hand back for one variable: reading it raises, or
\* it is a table (possibly empty).
VarOutcomes ==
    {[kind |-> "raise", rows |-> <<>>]}
        \cup {[kind |-> "table", rows |-> t] : t \in SeqsUpTo(RowPool, MaxRows)}

\* OBJ: reading raises, the table is empty (or has no lvl column), or it
\* holds the objective value, in 1/1000 million USD.
ObjOutcomes ==
    {[kind |-> "raise", lvl |-> 0], [kind |-> "empty", lvl |-> 0]}
        \cup {[kind |-> "value", lvl |-> v] : v \in {0, 676794, 1234565}}

\* var_list(): raises, or the names of the variables of the solution
VarListOutcomes ==
    {[kind |-> "raise", names |-> {}]}
        \cup {[kind |-> "list", names |-> n] : n \in SUBSET {"CAP_NEW", "ACT"}}

SolvedScenarios ==
    [OBJ : ObjOutcomes, var_list : VarListOutcomes,
     CAP_NEW : VarOutcomes, ACT : VarOutcomes]

\* f"{obj_value:.2f}": the value rounded to two decimals.  The string is
\* represented by the number of hundredths it spells.
Format2f(v) == (v + 5) \div 10

\* float(results['total_cost']): hundredths back to a number (in 1/100)
ParseFloat(str) == str

\* the placeholder capacity of one technology and year, 1/1000 GW
SyntheticCapacity(tech, year) ==
    IF tech = "gas_plant" THEN 50 + (year - 2025) * 10
    ELSE IF tech = "wind_plant" THEN 30 + (year - 2025) * 15
    ELSE 20 + (year - 2025) * 20

\* the placeholder generation of one technology and year, 1/1000 GWa
SyntheticGeneration(tech, year) ==
    IF tech = "gas_plant" THEN 40 + (year - 2025) * 5
    ELSE IF tech = "wind_plant" THEN 10 + (year - 2025) * 8
    ELSE 5 + (year - 2025) * 10

\* the three nested loops over regions, technologies and years, as the
\* sequence of (region, technology, year) they visit
SyntheticGrid ==
    [i \in 1..(Len(MxRegions) * Len(MxTechnologies) * Len(MxYears)) |->
        [region |-> MxRegions[((i - 1) \div (Len(MxTechnologies) * Len(MxYears))) + 1],
         technology |-> MxTechnologies[(((i - 1) \div Len(MxYears)) % Len(MxTechnologies)) + 1],
         year |-> MxYears[((i - 1) % Len(MxYears)) + 1]]]

\* variables_list of extract_results
VariablesList(sc) == IF sc.var_list.kind = "raise" THEN {} ELSE sc.var_list.names

\* capacity_data of extract_results
ExtractCapacity(sc) ==
    IF "CAP_NEW" \in VariablesList(sc)
    THEN IF sc.CAP_NEW.kind = "raise"
         THEN <<>>
         ELSE [i \in 1..Len(sc.CAP_NEW.rows) |->
                 [region |-> Get(sc.CAP_NEW.rows[i], "node_loc", "Unknown"),
                  technology |-> Get(sc.CAP_NEW.rows[i], "technology", "Unknown"),
                  year |-> Get(sc.CAP_NEW.rows[i], "year_vtg", 2025),
                  capacity_gw |-> Get(sc.CAP_NEW.rows[i], "lvl", 0)]]
    ELSE [i \in DOMAIN SyntheticGrid |->
             [region |-> SyntheticGrid[i].region,
              technology |-> SyntheticGrid[i].technology,
              year |-> SyntheticGrid[i].year,
              capacity_gw |-> SyntheticCapacity(SyntheticGrid[i].technology,
                                                SyntheticGrid[i].year)]]

\* generation_data of extract_results
ExtractGeneration(sc) ==
    IF "ACT" \in VariablesList(sc)
    THEN IF sc.ACT.kind = "raise"
         THEN <<>>
         ELSE [i \in 1..Len(sc.ACT.rows) |->
                 [region |-> Get(sc.ACT.rows[i], "node_loc", "Unknown"),
                  technology |-> Get(sc.ACT.rows[i], "technology", "Unknown"),
                  year |-> Get(sc.ACT.rows[i], "year_act", 2025),
                  generation_gwa |-> Get(sc.ACT.rows[i], "lvl", 0)]]
    ELSE [i \in DOMAIN SyntheticGrid |->
             [region |-> SyntheticGrid[i].region,
              technology |-> SyntheticGrid[i].technology,
              year |-> SyntheticGrid[i].year,
              generation_gwa |-> SyntheticGeneration(SyntheticGrid[i].technology,
                                                     SyntheticGrid[i].year)]]

\* tech_summary of extract_results: capacity summed by technology
TechSummary(capacity_data) ==
    LET techs == {capacity_data[i].technology : i \in DOMAIN capacity_data}
        RECURSIVE Total(_, _)
        Total(t, i) ==
            IF i > Len(capacity_data) THEN 0
            ELSE (IF capacity_data[i].technology = t
                  THEN capacity_data[i].capacity_gw ELSE 0) + Total(t, i + 1)
    IN  [t \in techs |-> Total(t, 1)]

\* a fallback that leaves the cost breakdown out
FallbackResults_partial ==
    [total_cost |-> 67679,
     capacity_data |-> <<>>,
     generation_data |-> <<>>,
     technology_mix |-> [t \in {"gas_plant", "wind_plant", "solar_plant"} |->
                            IF t = "gas_plant" THEN 500
                            ELSE IF t = "wind_plant" THEN 300 ELSE 200]]

\* the dict the outer except clause of extract_results fills in; money in
\* 1/10000 million USD, the technology mix in 1/1000
FallbackResults ==
    [total_cost |-> 67679,
     capacity_data |-> <<>>,
     generation_data |-> <<>>,
     cost_breakdown |-> [investment_cost |-> 4737500,
                         operational_cost |-> 1692000,
                         fuel_cost |-> 338400],
     technology_mix |-> [t \in {"gas_plant", "wind_plant", "solar_plant"} |->
                            IF t = "gas_plant" THEN 500
                            ELSE IF t = "wind_plant" THEN 300 ELSE 200]]

\* extract_results: the dict it returns for a solved scenario
ExtractResults(sc) ==
    IF sc.OBJ.kind = "raise"
    THEN FallbackResults
    ELSE LET total_cost == IF sc.OBJ.kind = "value"
                           THEN Format2f(sc.OBJ.lvl) ELSE 67679
             capacity_data == ExtractCapacity(sc)
             generation_data == ExtractGeneration(sc)
             tables ==
                 (IF "CAP_NEW" \in VariablesList(sc) /\ sc.CAP_NEW.kind = "table"
                     /\ sc.CAP_NEW.rows # <<>>
                  THEN [capacity |-> sc.CAP_NEW.rows] ELSE <<>>)
                 @@
                 (IF "ACT" \in VariablesList(sc) /\ sc.ACT.kind = "table"
                     /\ sc.ACT.rows # <<>>
                  THEN [activity |-> sc.ACT.rows] ELSE <<>>)
         IN  [total_cost |-> total_cost,
              capacity_data |-> capacity_data,
              generation_data |-> generation_data,
              cost_breakdown |->
                  [investment_cost |-> ParseFloat(total_cost) * 70,
                   operational_cost |-> ParseFloat(total_cost) * 25,
                   fuel_cost |-> ParseFloat(total_cost) * 5],
              technology_mix |-> TechSummary(capacity_data)]
             @@ tables

\* the files save_results writes for a result dict
SavedFiles(res) ==
    {"results/dashboard_data.json", "results/cost_breakdown.csv",
     "results/messageix_final_working_model.xlsx",
     "results/messageix_final_summary.json"}
        \cup (IF Get(res, "capacity_data", <<>>) # <<>>
              THEN {"results/capacity_results.csv"} ELSE {})
        \cup (IF Get(res, "generation_data", <<>>) # <<>>
              THEN {"results/generation_results.csv"} ELSE {})

\* dashboard_data of save_results
DashboardData(res) ==
    [objective_value |-> Get(res, "total_cost", 67679),
     total_cost_million_usd |-> ParseFloat(Get(res, "total_cost", 67679)),
     capacity_data |-> Get(res, "capacity_data", <<>>),
     generation_data |-> Get(res, "generation_data", <<>>),
     cost_breakdown |-> Get(res, "cost_breakdown", <<>>),
     technology_mix |-> Get(res, "technology_mix", <<>>)]

MainUnchanged ==
    UNCHANGED <<script, fs, solved_scenario, solve_calls, results, dashboard_data, scen_vars, call_vars, load_vars>>

\* main: FinalMessageIXEnergyModel() and create_model() succeed
MainCreateModel ==
    /\ script = "messageix_main" /\ m_pc = "start"
    /\ m_pc' = "created"
    /\ MainUnchanged

\* main: the platform or create_model raises; the except clause of main
\* prints the error and main returns
MainCreateModelRaises ==
    /\ script = "messageix_main" /\ m_pc = "start"
    /\ m_pc' = "failed"
    /\ MainUnchanged

\* where main goes when clone() or solve() raises: its except clause
AfterSolveFailure == "failed"

\* solve_model: clone and solve succeed
MainSolveModel ==
    /\ script = "messageix_main" /\ m_pc = "created"
    /\ \E sc \in SolvedScenarios : solved_scenario' = sc
    /\ solve_calls' = solve_calls + 1
    /\ m_pc' = "solved"
    /\ UNCHANGED <<script, fs, results, dashboard_data, scen_vars, call_vars, load_vars>>

\* solve_model: solve() raises
MainSolveModelRaises ==
    /\ script = "messageix_main" /\ m_pc = "created"
    /\ solve_calls' = solve_calls + 1
    /\ m_pc' = AfterSolveFailure
    /\ UNCHANGED <<script, fs, solved_scenario, results, dashboard_data, scen_vars, call_vars, load_vars>>

\* solve_model: clone() raises before solve() is reached
MainCloneRaises ==
    /\ script = "messageix_main" /\ m_pc = "created"
    /\ m_pc' = "failed"
    /\ MainUnchanged

\* main: results = model.extract_results()
MainExtractResults ==
    /\ script = "messageix_main" /\ m_pc = "solved"
    /\ results' = ExtractResults(solved_scenario)
    /\ m_pc' = "extracted"
    /\ UNCHANGED <<script, fs, solved_scenario, solve_calls, dashboard_data, scen_vars, call_vars, load_vars>>

\* main: model.save_results(results), then the closing messages
MainSaveResults ==
    /\ script = "messageix_main" /\ m_pc = "extracted"
    /\ fs' = fs \cup SavedFiles(results)
    /\ dashboard_data' = DashboardData(results)
    /\ m_pc' = "done"
    /\ UNCHANGED <<script, solved_scenario, solve_calls, results, scen_vars, call_vars, load_vars>>


(***************************************************************************)
(* scripts/run_model.py                                                    *)
(*                                                                         *)
(* Units: demand in MW (MWh per hour), rounded down; the renewable target  *)
(* in 1/20; generation in 1/200 MWh (a share in 1/10 times a target in     *)
(* 1/20); CO2 intensity in kg/MWh; emissions in 1/200 kg; capex in USD/MW; *)
(* availability factors in 1/1000; a normal deviate in standard            *)
(* deviations; a quotient of two quantities is a reduced fraction.         *)
(***************************************************************************)

\* bound: the number of deviate streams the seeded generator may stand for
NStreams == 3

\* bound: the largest deviate, in standard deviations, a stream holds
MaxDeviate == 7

start_year == 2025
end_year == 2050

Max(a, b) == IF a >= b THEN a ELSE b
Min(a, b) == IF a <= b THEN a ELSE b
Abs(a) == IF a >= 0 THEN a ELSE -a

RECURSIVE GCD(_, _)
GCD(a, b) == IF b = 0 THEN a ELSE GCD(b, a % b)

\* the quotient n / d (d # 0) as a reduced fraction with a positive denominator
Frac(n, d) ==
    LET g == GCD(Abs(n), Abs(d))
        s == IF d < 0 THEN -1 ELSE 1
    IN  [num |-> s * (n \div g), den |-> s * (d \div g)]

FracAdd(a, b) == Frac(a.num * b.den + b.num * a.den, a.den * b.den)

RECURSIVE FracSum(_)
FracSum(s) == IF s = <<>> THEN Frac(0, 1) ELSE FracAdd(Head(s), FracSum(Tail(s)))

\* a.num / a.den >= p / 1000, for a.den > 0, without leaving 32 bits
FracGEPerMille(a, p) ==
    a.num >= p * (a.den \div 1000) + ((p * (a.den % 1000) + 999) \div 1000)

RECURSIVE MaxSeq(_)
MaxSeq(s) == IF Len(s) = 1 THEN s[1] ELSE Max(Head(s), MaxSeq(Tail(s)))

RECURSIVE MinSeq(_)
MinSeq(s) == IF Len(s) = 1 THEN s[1] ELSE Min(Head(s), MinSeq(Tail(s)))

\* the deviate at position pos (0-based) of stream s; stream 1 is noiseless,
\* the others run through -MaxDeviate..MaxDeviate
StreamZ(s, pos) ==
    IF s = 1 THEN 0
    ELSE ((pos * (s - 1) + 3 * s) % (2 * MaxDeviate + 1)) - MaxDeviate

\* a generator that is not seeded again
np_random_seed_skipped(rng) == rng

\* np.random.seed(42): the generator restarts the stream of seed 42
np_random_seed(rng) == [stream |-> seed_stream, pos |-> 0]

\* the generator after n more draws
Advance(rng, n) == [rng EXCEPT !.pos = @ + n]

regions == <<"Industrial", "Residential">>
time_periods == [h \in 1..24 |-> h - 1]
carbon_targets == [y \in {2030, 2040, 2050} |->
                      IF y = 2030 THEN 500 ELSE IF y = 2040 THEN 750 ELSE 900]

\* self.technologies: learning_rate in 1/100
technologies ==
    [t \in {"natural_gas_plant", "wind_turbine", "solar_pv", "lithium_battery"} |->
        IF t = "natural_gas_plant"
        THEN [capex_2025 |-> 950000, opex_fixed |-> 15000, opex_variable |-> 35,
              fuel_cost |-> 38, co2_intensity |-> 354, learning_rate |-> 0]
        ELSE IF t = "wind_turbine"
        THEN [capex_2025 |-> 1320000, opex_fixed |-> 25000, opex_variable |-> 12,
              fuel_cost |-> 0, co2_intensity |-> 11, learning_rate |-> 8]
        ELSE IF t = "solar_pv"
        THEN [capex_2025 |-> 980000, opex_fixed |-> 18000, opex_variable |-> 8,
              fuel_cost |-> 0, co2_intensity |-> 41, learning_rate |-> 15]
        ELSE [capex_2025 |-> 1580000, opex_fixed |-> 22000, opex_variable |-> 5,
              fuel_cost |-> 0, co2_intensity |-> 0, learning_rate |-> 18]]

\* a year list that is not in ascending order
ConstructedYears_unsorted == <<2025, 2040, 2030, 2035>>

\* a year list of every fifth year up to end_year
ConstructedYears_to_end_year == <<2025, 2030, 2035, 2040, 2045, 2050>>

\* self.years after __init__: the range set first is overwritten
ConstructedYears ==
    LET first == [i \in 1..(end_year + 1 - start_year) |-> start_year + i - 1]
        second == <<2025, 2030, 2035, 2040>>
    IN  second

\* (1 + self.demand_growth_rate) ** n, in 1/10000
RECURSIVE GrowthFactor(_)
GrowthFactor(n) == IF n = 0 THEN 10000 ELSE (GrowthFactor(n - 1) * 10230) \div 10000

\* industrial_demand[hour] of generate_demand_patterns for one deviate
IndustrialDemand(year, z) ==
    LET industrial_base == (100 * GrowthFactor(year - start_year)) \div 10000
        variation == 1000 + 50 * z
        demand == (industrial_base * variation) \div 1000
    IN  Max(demand, (industrial_base * 8) \div 10)

\* a residential demand whose multiplier has no floor
ResidentialDemand_unfloored(year, hour, z) ==
    LET residential_base == (80 * GrowthFactor(year - start_year)) \div 10000
        efficiency_improvement == 5 * (year - start_year)
        base_adjusted == (residential_base * (1000 - efficiency_improvement)) \div 1000
        multiplier ==
            IF 6 <= hour /\ hour <= 9 THEN 1400 + 100 * z
            ELSE IF 17 <= hour /\ hour <= 21 THEN 1600 + 100 * z
            ELSE IF (22 <= hour /\ hour <= 24) \/ (0 <= hour /\ hour <= 5)
                 THEN 600 + 50 * z
            ELSE 1000 + 100 * z
    IN  (base_adjusted * Max(multiplier, 0)) \div 1000

\* residential_demand[hour] of generate_demand_patterns for one deviate
ResidentialDemand(year, hour, z) ==
    LET residential_base == (80 * GrowthFactor(year - start_year)) \div 10000
        efficiency_improvement == 5 * (year - start_year)
        base_adjusted == (residential_base * (1000 - efficiency_improvement)) \div 1000
        multiplier ==
            IF 6 <= hour /\ hour <= 9 THEN 1400 + 100 * z
            ELSE IF 17 <= hour /\ hour <= 21 THEN 1600 + 100 * z
            ELSE IF (22 <= hour /\ hour <= 24) \/ (0 <= hour /\ hour <= 5)
                 THEN 600 + 50 * z
            ELSE 1000 + 100 * z
    IN  (base_adjusted * Max(multiplier, 400)) \div 1000

\* generate_demand_patterns called with the generator in state rng: it seeds
\* the generator, then draws per year 24 industrial and 24 residential
\* deviates
GenerateDemandPatterns(ys, rng) ==
    LET g == np_random_seed(rng)
    IN  [y \in {ys[k] : k \in DOMAIN ys} |->
            LET k == CHOOSE j \in DOMAIN ys :
                        ys[j] = y /\ \A i \in DOMAIN ys : ys[i] = y => i <= j
                at == g.pos + 48 * (k - 1)
            IN  [Industrial |->
                    [i \in 1..24 |-> IndustrialDemand(y, StreamZ(g.stream, at + i - 1))],
                 Residential |->
                    [i \in 1..24 |-> ResidentialDemand(y, time_periods[i],
                                                       StreamZ(g.stream, at + 24 + i - 1))]]]

\* the number of draws generate_demand_patterns makes
DemandDraws(ys) == 48 * Len(ys)

\* the generator when generate_demand_patterns returns
AfterDemandPatterns(ys, rng) == Advance(np_random_seed(rng), DemandDraws(ys))

\* a wind availability without the upper clamp
WindAvailability_unclamped(hour, z) ==
    LET base_factor == IF (0 <= hour /\ hour <= 6) \/ (20 <= hour /\ hour <= 24)
                       THEN 400 ELSE 250
        factor == (base_factor * (1000 + 300 * z)) \div 1000
    IN  Max(factor, 50)

\* wind_profile[hour] of generate_renewable_profiles for one deviate
WindAvailability(hour, z) ==
    LET base_factor == IF (0 <= hour /\ hour <= 6) \/ (20 <= hour /\ hour <= 24)
                       THEN 400 ELSE 250
        factor == (base_factor * (1000 + 300 * z)) \div 1000
    IN  Max(Min(factor, 800), 50)

\* a solar availability whose parabola reaches 0 seven hours from noon:
\* 0.8 * (1 - |hour - 12| / 7)^2 * (1 + 0.2 z)
SolarAvailability_wide(hour, z) ==
    LET sun == 7 - Abs(hour - 12)
        factor == IF 6 <= hour /\ hour <= 18
                  THEN (160 * sun * sun * (5 + z)) \div 49
                  ELSE 0
    IN  Max(Min(factor, 900), 0)

\* solar_profile[hour] of generate_renewable_profiles for one deviate:
\* 0.8 * (1 - |hour - 12| / 6)^2 * (1 + 0.2 z) = 40 (6 - |hour - 12|)^2 (5 + z) / 9000
SolarAvailability(hour, z) ==
    LET sun == 6 - Abs(hour - 12)
        factor == IF 6 <= hour /\ hour <= 18
                  THEN (40 * sun * sun * (5 + z)) \div 9
                  ELSE 0
    IN  Max(Min(factor, 900), 0)

\* the number of draws of the solar loop before hour time_periods[i]
SolarDrawsBefore(i) ==
    Cardinality({j \in 1..(i - 1) : 6 <= time_periods[j] /\ time_periods[j] <= 18})

\* generate_renewable_profiles called with the generator in state rng: it
\* seeds the generator, then draws 24 wind deviates and one deviate per
\* daylight hour
GenerateRenewableProfiles(rng) ==
    LET g == np_random_seed(rng)
    IN  [wind_turbine |->
            [i \in 1..24 |-> WindAvailability(time_periods[i],
                                              StreamZ(g.stream, g.pos + i - 1))],
         solar_pv |->
            [i \in 1..24 |-> SolarAvailability(time_periods[i],
                                 StreamZ(g.stream, g.pos + 24 + SolarDrawsBefore(i)))]]

RenewableDraws == 24 + SolarDrawsBefore(25)

\* the generator when generate_renewable_profiles returns
AfterRenewableProfiles(rng) == Advance(np_random_seed(rng), RenewableDraws)

\* params['capex_2025'] * (1 - params['learning_rate']) ** n, in whole USD;
\* a negative n divides
RECURSIVE LearningCurve(_, _, _)
LearningCurve(capex, rate, n) ==
    IF n = 0 THEN capex
    ELSE IF n > 0 THEN (LearningCurve(capex, rate, n - 1) * (100 - rate)) \div 100
    ELSE (LearningCurve(capex, rate, n + 1) * 100) \div (100 - rate)

\* costs whose capex declines by the learning rate of the base capex a year
calculate_technology_costs_linear(year) ==
    [t \in DOMAIN technologies |->
        [capex |-> (technologies[t].capex_2025
                       * (100 - technologies[t].learning_rate * (year - start_year)))
                       \div 100,
         opex_fixed |-> technologies[t].opex_fixed,
         opex_variable |-> technologies[t].opex_variable,
         fuel_cost |-> technologies[t].fuel_cost,
         co2_intensity |-> technologies[t].co2_intensity]]

\* calculate_technology_costs
calculate_technology_costs(year) ==
    [t \in DOMAIN technologies |->
        [capex |-> LearningCurve(technologies[t].capex_2025,
                                 technologies[t].learning_rate, year - start_year),
         opex_fixed |-> technologies[t].opex_fixed,
         opex_variable |-> technologies[t].opex_variable,
         fuel_cost |-> technologies[t].fuel_cost,
         co2_intensity |-> technologies[t].co2_intensity]]

\* sum(generation_mix.values())
MixTotal(generation_mix) ==
    LET RECURSIVE Total(_)
        Total(S) == IF S = {} THEN 0
                    ELSE LET t == CHOOSE x \in S : TRUE
                         IN  generation_mix[t] + Total(S \ {t})
    IN  Total(DOMAIN generation_mix)

\* a renewable share with no value for a mix without generation
calculate_renewable_share_unguarded(generation_mix) ==
    LET renewable_gen == Get(generation_mix, "wind_turbine", 0)
                             + Get(generation_mix, "solar_pv", 0)
        total_gen == MixTotal(generation_mix)
    IN  IF total_gen > 0 THEN Frac(renewable_gen, total_gen) ELSE [num |-> 0, den |-> 0]

\* a renewable share taken relative to the gas generation
calculate_renewable_share_of_gas(generation_mix) ==
    LET renewable_gen == Get(generation_mix, "wind_turbine", 0)
                             + Get(generation_mix, "solar_pv", 0)
        gas_gen == Get(generation_mix, "natural_gas_plant", 0)
    IN  IF gas_gen > 0 THEN Frac(renewable_gen, gas_gen) ELSE Frac(0, 1)

\* a share that counts the storage discharge as renewable
calculate_renewable_share_with_storage(generation_mix) ==
    LET renewable_gen == Get(generation_mix, "wind_turbine", 0)
                             + Get(generation_mix, "solar_pv", 0)
                             + Get(generation_mix, "lithium_battery", 0)
        total_gen == MixTotal(generation_mix)
    IN  IF total_gen > 0 THEN Frac(renewable_gen, total_gen) ELSE Frac(0, 1)

\* _calculate_renewable_share
calculate_renewable_share(generation_mix) ==
    LET renewable_gen == Get(generation_mix, "wind_turbine", 0)
                             + Get(generation_mix, "solar_pv", 0)
        total_gen == MixTotal(generation_mix)
    IN  IF total_gen > 0 THEN Frac(renewable_gen, total_gen) ELSE Frac(0, 1)

\* emissions whose total keeps the last technology's emissions only
calculate_emissions_last(generation_mix) ==
    LET total_generation == MixTotal(generation_mix)
        emissions_by_tech ==
            [t \in DOMAIN generation_mix |->
                generation_mix[t] * technologies[t].co2_intensity]
        total_emissions == Get(emissions_by_tech, "natural_gas_plant", 0)
    IN  [total_emissions_tons |-> total_emissions,
         carbon_intensity_kg_mwh |->
             IF total_generation > 0 THEN Frac(total_emissions, total_generation)
             ELSE Frac(0, 1),
         emissions_by_tech |-> emissions_by_tech,
         renewable_share |-> calculate_renewable_share(generation_mix)]

\* calculate_emissions raises: self.technologies[tech] of a technology the
\* model has no parameters for (KeyError)
CalculateEmissionsRaises(generation_mix) ==
    \E t \in DOMAIN generation_mix : t \notin DOMAIN technologies

\* calculate_emissions, when it does not raise
calculate_emissions(generation_mix) ==
    LET total_generation == MixTotal(generation_mix)
        emissions_by_tech ==
            [t \in DOMAIN generation_mix |->
                generation_mix[t] * technologies[t].co2_intensity]
        total_emissions == MixTotal(emissions_by_tech)
    IN  [total_emissions_tons |-> total_emissions,
         carbon_intensity_kg_mwh |->
             IF total_generation > 0 THEN Frac(total_emissions, total_generation)
             ELSE Frac(0, 1),
         emissions_by_tech |-> emissions_by_tech,
         renewable_share |-> calculate_renewable_share(generation_mix)]

\* a target whose first limit leaves 2030 out
get_renewable_target_strict(year) ==
    IF year < 2030 THEN 8
    ELSE IF year <= 2040 THEN 14
    ELSE 17

\* _get_renewable_target, in 1/20
get_renewable_target(year) ==
    IF year <= 2030 THEN 8
    ELSE IF year <= 2040 THEN 14
    ELSE 17

\* an allocator whose baseline gas share is the storage variant's
optimize_generation_mix_gas(name, year, system_demand) ==
    LET renewable_target == get_renewable_target(year)
    IN  IF name = "battery_storage"
        THEN [t \in {"wind_turbine", "solar_pv", "lithium_battery", "natural_gas_plant"} |->
                IF t = "wind_turbine" THEN system_demand * 4 * renewable_target
                ELSE IF t = "solar_pv" THEN system_demand * 3 * renewable_target
                ELSE IF t = "lithium_battery" THEN system_demand * 20
                ELSE system_demand * (200 - renewable_target * 7)]
        ELSE [t \in {"wind_turbine", "solar_pv", "natural_gas_plant"} |->
                IF t = "wind_turbine" THEN system_demand * 3 * renewable_target
                ELSE IF t = "solar_pv" THEN system_demand * 2 * renewable_target
                ELSE system_demand * (200 - renewable_target * 7)]

\* an allocator that gives every scenario but 'baseline' the storage rules
optimize_generation_mix_names(name, year, system_demand) ==
    LET renewable_target == get_renewable_target(year)
    IN  IF name # "baseline"
        THEN [t \in {"wind_turbine", "solar_pv", "lithium_battery", "natural_gas_plant"} |->
                IF t = "wind_turbine" THEN system_demand * 4 * renewable_target
                ELSE IF t = "solar_pv" THEN system_demand * 3 * renewable_target
                ELSE IF t = "lithium_battery" THEN system_demand * 20
                ELSE system_demand * (200 - renewable_target * 7)]
        ELSE [t \in {"wind_turbine", "solar_pv", "natural_gas_plant"} |->
                IF t = "wind_turbine" THEN system_demand * 3 * renewable_target
                ELSE IF t = "solar_pv" THEN system_demand * 2 * renewable_target
                ELSE system_demand * (200 - renewable_target * 5)]

\* an allocator whose storage variant takes the storage dispatch off the gas
\* share, so that the shares add up to the demand
optimize_generation_mix_normalised(name, year, system_demand) ==
    LET renewable_target == get_renewable_target(year)
    IN  IF name = "battery_storage"
        THEN [t \in {"wind_turbine", "solar_pv", "lithium_battery", "natural_gas_plant"} |->
                IF t = "wind_turbine" THEN system_demand * 4 * renewable_target
                ELSE IF t = "solar_pv" THEN system_demand * 3 * renewable_target
                ELSE IF t = "lithium_battery" THEN system_demand * 20
                ELSE system_demand * (180 - renewable_target * 7)]
        ELSE [t \in {"wind_turbine", "solar_pv", "natural_gas_plant"} |->
                IF t = "wind_turbine" THEN system_demand * 3 * renewable_target
                ELSE IF t = "solar_pv" THEN system_demand * 2 * renewable_target
                ELSE system_demand * (200 - renewable_target * 5)]

\* an allocator whose baseline wind takes the storage variant's coefficient
optimize_generation_mix_wind(name, year, system_demand) ==
    LET renewable_target == get_renewable_target(year)
    IN  IF name = "battery_storage"
        THEN [t \in {"wind_turbine", "solar_pv", "lithium_battery", "natural_gas_plant"} |->
                IF t = "wind_turbine" THEN system_demand * 4 * renewable_target
                ELSE IF t = "solar_pv" THEN system_demand * 3 * renewable_target
                ELSE IF t = "lithium_battery" THEN system_demand * 20
                ELSE system_demand * (200 - renewable_target * 7)]
        ELSE [t \in {"wind_turbine", "solar_pv", "natural_gas_plant"} |->
                IF t = "wind_turbine" THEN system_demand * 4 * renewable_target
                ELSE IF t = "solar_pv" THEN system_demand * 2 * renewable_target
                ELSE system_demand * (200 - renewable_target * 5)]

\* _optimize_generation_mix for a system demand
optimize_generation_mix(name, year, system_demand) ==
    LET renewable_target == get_renewable_target(year)
    IN  IF name = "battery_storage"
        THEN [t \in {"wind_turbine", "solar_pv", "lithium_battery", "natural_gas_plant"} |->
                IF t = "wind_turbine" THEN system_demand * 4 * renewable_target
                ELSE IF t = "solar_pv" THEN system_demand * 3 * renewable_target
                ELSE IF t = "lithium_battery" THEN system_demand * 20
                ELSE system_demand * (200 - renewable_target * 7)]
        ELSE [t \in {"wind_turbine", "solar_pv", "natural_gas_plant"} |->
                IF t = "wind_turbine" THEN system_demand * 3 * renewable_target
                ELSE IF t = "solar_pv" THEN system_demand * 2 * renewable_target
                ELSE system_demand * (200 - renewable_target * 5)]

\* total_demand of _analyze_year: the demand metrics of each region
DemandAnalysis(year_demand) ==
    [r \in {regions[i] : i \in DOMAIN regions} |->
        LET total_daily_demand == SumSeq(year_demand[r])
            peak_demand == MaxSeq(year_demand[r])
            min_demand == MinSeq(year_demand[r])
        IN  [total_daily_mwh |-> total_daily_demand,
             peak_mw |-> peak_demand,
             min_mw |-> min_demand,
             load_factor |-> Frac(total_daily_demand, peak_demand * 24)]]

\* system_demand of _optimize_generation_mix: the sum over the regions
SystemDemand(total_demand) ==
    LET RECURSIVE Total(_)
        Total(S) == IF S = {} THEN 0
                    ELSE LET r == CHOOSE x \in S : TRUE
                         IN  total_demand[r].total_daily_mwh + Total(S \ {r})
    IN  Total(DOMAIN total_demand)

\* _analyze_year raises: total_daily_demand / (peak_demand * 24) divides by
\* zero for a region whose peak is 0
AnalyzeYearRaises(year, demand) ==
    /\ year \in DOMAIN demand
    /\ \E i \in DOMAIN regions : MaxSeq(demand[year][regions[i]]) = 0

\* a year analysis whose storage scenario is five years ahead on the
\* learning curves
analyze_year_storage_costs(name, year, demand) ==
    IF year \notin DOMAIN demand
    THEN <<>>
    ELSE LET total_demand == DemandAnalysis(demand[year])
             optimal_mix == optimize_generation_mix(name, year, SystemDemand(total_demand))
             emissions == calculate_emissions(optimal_mix)
         IN  [demand_analysis |-> total_demand,
              generation_mix |-> optimal_mix,
              costs |-> calculate_technology_costs(IF name = "battery_storage"
                                                   THEN year + 5 ELSE year),
              emissions |-> emissions,
              renewable_share |-> emissions.renewable_share]

\* _analyze_year, when it does not raise; the empty dict is <<>>
analyze_year(name, year, demand) ==
    IF year \notin DOMAIN demand
    THEN <<>>
    ELSE LET total_demand == DemandAnalysis(demand[year])
             optimal_mix == optimize_generation_mix(name, year, SystemDemand(total_demand))
             emissions == calculate_emissions(optimal_mix)
         IN  [demand_analysis |-> total_demand,
              generation_mix |-> optimal_mix,
              costs |-> calculate_technology_costs(year),
              emissions |-> emissions,
              renewable_share |-> emissions.renewable_share]

\* annual_results is a dict in insertion order: a sequence of (year, result)
DictKeys(d) == {d[i].year : i \in DOMAIN d}

DictGet(d, y) == d[CHOOSE i \in DOMAIN d : d[i].year = y].result

\* d[y] = r: a new key is appended, a key already there keeps its place
DictPut(d, y, r) ==
    IF y \in DictKeys(d)
    THEN [i \in DOMAIN d |-> IF d[i].year = y THEN [year |-> y, result |-> r] ELSE d[i]]
    ELSE Append(d, [year |-> y, result |-> r])

\* the entries of annual_results whose result has the key
WithKey(annual_results, key) ==
    SelectSeq(annual_results, LAMBDA e : key \in DOMAIN e.result)

\* _calculate_scenario_summary raises: max() of an empty list
SummaryRaises(annual_results) == WithKey(annual_results, "demand_analysis") = <<>>

\* the sum over the regions of a year's regional peaks
SystemPeak(result) ==
    LET da == result.demand_analysis
        RECURSIVE Total(_)
        Total(S) == IF S = {} THEN 0
                    ELSE LET r == CHOOSE x \in S : TRUE
                         IN  da[r].peak_mw + Total(S \ {r})
    IN  Total(DOMAIN da)

\* a summary whose mean is taken over every year of annual_results
calculate_scenario_summary_all_years(annual_results) ==
    LET with_emissions == WithKey(annual_results, "emissions")
        with_share == WithKey(annual_results, "renewable_share")
        with_demand == WithKey(annual_results, "demand_analysis")
        shares == [i \in DOMAIN with_share |-> with_share[i].result.renewable_share]
        total == FracSum(shares)
    IN  [total_cumulative_emissions |->
             SumSeq([i \in DOMAIN with_emissions |->
                        with_emissions[i].result.emissions.total_emissions_tons]),
         average_renewable_share |->
             IF shares = <<>> THEN [num |-> 0, den |-> 0]
             ELSE Frac(total.num, total.den * Len(annual_results)),
         peak_system_demand_2050 |->
             MaxSeq([i \in DOMAIN with_demand |-> SystemPeak(with_demand[i].result)]),
         demand_growth_factor |-> GrowthFactor(end_year - start_year)]

\* _calculate_scenario_summary, when it does not raise
calculate_scenario_summary(annual_results) ==
    LET with_emissions == WithKey(annual_results, "emissions")
        with_share == WithKey(annual_results, "renewable_share")
        with_demand == WithKey(annual_results, "demand_analysis")
        shares == [i \in DOMAIN with_share |-> with_share[i].result.renewable_share]
        total == FracSum(shares)
    IN  [total_cumulative_emissions |->
             SumSeq([i \in DOMAIN with_emissions |->
                        with_emissions[i].result.emissions.total_emissions_tons]),
         average_renewable_share |->
             IF shares = <<>> THEN [num |-> 0, den |-> 0]   \* np.mean([]) is nan
             ELSE Frac(total.num, total.den * Len(shares)),
         peak_system_demand_2050 |->
             MaxSeq([i \in DOMAIN with_demand |-> SystemPeak(with_demand[i].result)]),
         demand_growth_factor |-> GrowthFactor(end_year - start_year)]

\* the target years _track_environmental_progress walks through
ProgressYears == <<2030, 2040, 2050>>

\* baseline_emissions of _track_environmental_progress; 1000 tons by default
BaselineEmissions(annual_results) ==
    LET r2025 == IF 2025 \in DictKeys(annual_results)
                 THEN DictGet(annual_results, 2025) ELSE <<>>
    IN  IF "emissions" \in DOMAIN r2025
        THEN r2025.emissions.total_emissions_tons
        ELSE 1000 * 200000

\* _track_environmental_progress raises: a tracked year's result has no
\* 'emissions' (KeyError), or the baseline is 0 (ZeroDivisionError)
ProgressRaises(annual_results) ==
    \E i \in DOMAIN ProgressYears :
        /\ ProgressYears[i] \in DictKeys(annual_results)
        /\ \/ "emissions" \notin DOMAIN DictGet(annual_results, ProgressYears[i])
           \/ BaselineEmissions(annual_results) = 0

\* the exception _track_environmental_progress raises: that of the first
\* tracked year that raises one
ProgressException(annual_results) ==
    LET raising == {i \in DOMAIN ProgressYears :
                       ProgressYears[i] \in DictKeys(annual_results)}
        first == CHOOSE i \in raising : \A j \in raising : i <= j
    IN  IF "emissions" \notin DOMAIN DictGet(annual_results, ProgressYears[first])
        THEN "KeyError" ELSE "ZeroDivisionError"

\* a progress report that is on track only when the target itself is met
track_environmental_progress_strict(annual_results) ==
    LET baseline_emissions == BaselineEmissions(annual_results)
        tracked == {ProgressYears[i] : i \in DOMAIN ProgressYears}
                       \cap DictKeys(annual_results)
    IN  [y \in tracked |->
            LET current_emissions ==
                    DictGet(annual_results, y).emissions.total_emissions_tons
                reduction_achieved ==
                    Frac(baseline_emissions - current_emissions, baseline_emissions)
                target_reduction == Get(carbon_targets, y, 0)
            IN  [target_reduction |-> target_reduction,
                 achieved_reduction |-> reduction_achieved,
                 on_track |-> FracGEPerMille(reduction_achieved, target_reduction)]]

\* _track_environmental_progress, when it does not raise; reductions in 1/1000
track_environmental_progress(annual_results) ==
    LET baseline_emissions == BaselineEmissions(annual_results)
        tracked == {ProgressYears[i] : i \in DOMAIN ProgressYears}
                       \cap DictKeys(annual_results)
    IN  [y \in tracked |->
            LET current_emissions ==
                    DictGet(annual_results, y).emissions.total_emissions_tons
                reduction_achieved ==
                    Frac(baseline_emissions - current_emissions, baseline_emissions)
                target_reduction == Get(carbon_targets, y, 0)
            IN  [target_reduction |-> target_reduction,
                 achieved_reduction |-> reduction_achieved,
                 on_track |-> FracGEPerMille(reduction_achieved,
                                             (target_reduction * 9) \div 10)]]

\* the files save_data_to_files writes
DataFiles(name) ==
    {"data/demand_patterns_" \o name \o "_2025_2050.csv",
     "data/renewable_profiles.csv",
     "data/technology_costs_" \o name \o ".csv"}

\* the scenarios run_scenario_comparison runs, in its order
ScenarioOrder == <<"baseline", "battery_storage">>

\* the scenario names a model may be constructed with
ScenarioNames == {"baseline", "battery_storage", "high_renewables"}

\* what a demand table handed to the loop may hold for a year: the generated
\* values, no entry, or a day without demand
GivenKinds == {"generated", "missing", "zero"}

\* the demand table of a caller: the generated one with the years changed
\* as demand_given says
GivenDemand(generated, given) ==
    [y \in {x \in DOMAIN generated : given[x] # "missing"} |->
        IF given[y] = "zero"
        THEN [r \in DOMAIN generated[y] |-> [i \in 1..24 |-> 0]]
        ELSE generated[y]]

ScenUnchanged == UNCHANGED <<script, main_vars, call, ret, load_vars, seed_stream, demand_given>>

\* TwoRegionEnergyModel(scenario_name=...): __init__
ScenConstruct ==
    /\ script \in {"run_scenario_comparison", "run_scenario_analysis",
                    "profile_generator"}
    /\ s_pc = "start"
    /\ \E name \in ScenarioNames :
        /\ script = "run_scenario_comparison" => name = ScenarioOrder[run_no]
        /\ scenario_name' = name
    /\ years' = ConstructedYears
    /\ s_pc' = "constructed"
    /\ UNCHANGED <<fs, run_no, np_random, demand_data, renewable_data, year_idx,
                   scenario_results, scenarios_results>>
    /\ passes' = passes
    /\ ScenUnchanged

\* run_scenario_analysis up to its loop: save_data_to_files generates both
\* profiles (two more generation passes) and writes the data files, then
\* scenario_results is set up.
\* Under run_scenario_analysis the demand table is the caller's.
ScenGenerate ==
    /\ script \in {"run_scenario_comparison", "run_scenario_analysis"}
    /\ s_pc = "constructed"
    /\ LET generated == GenerateDemandPatterns(years, np_random)
       IN  demand_data' = IF script = "run_scenario_comparison" THEN generated
                          ELSE GivenDemand(generated, demand_given)
    /\ renewable_data' = GenerateRenewableProfiles(AfterDemandPatterns(years, np_random))
    /\ np_random' = AfterRenewableProfiles(AfterDemandPatterns(years, np_random))
    /\ fs' = fs \cup DataFiles(scenario_name)
    /\ scenario_results' = [scenario_name |-> scenario_name,
                            years |-> years,
                            annual_results |-> <<>>,
                            summary_metrics |-> <<>>,
                            environmental_progress |-> <<>>]
    /\ year_idx' = 1
    /\ s_pc' = "analyzing"
    /\ UNCHANGED <<run_no, scenario_name, years, scenarios_results>>
    /\ passes' = passes \o
           <<[pass |-> "generate_demand_patterns",
              foreign |-> np_random.stream # seed_stream,
              value |-> GenerateDemandPatterns(years, np_random)],
             [pass |-> "generate_renewable_profiles",
              foreign |-> AfterDemandPatterns(years, np_random).stream # seed_stream,
              value |-> GenerateRenewableProfiles(AfterDemandPatterns(years, np_random))]>>
    /\ ScenUnchanged

\* a loop that is left after its first iteration
LoopDone_early == year_idx > 1

\* the loop of run_scenario_analysis is over
LoopDone == year_idx > Len(years)

\* one iteration of the loop of run_scenario_analysis; an exception of
\* _analyze_year is caught nowhere and ends the script
ScenAnalyzeYear ==
    /\ s_pc = "analyzing" /\ year_idx <= Len(years)
    /\ IF AnalyzeYearRaises(years[year_idx], demand_data)
       THEN /\ s_pc' = "raised"
            /\ UNCHANGED <<scenario_results, year_idx>>
       ELSE /\ scenario_results' =
                   [scenario_results EXCEPT !.annual_results =
                       DictPut(@, years[year_idx],
                               analyze_year(scenario_name, years[year_idx], demand_data))]
            /\ year_idx' = year_idx + 1
            /\ s_pc' = s_pc
    /\ UNCHANGED <<fs, run_no, scenario_name, years, np_random, demand_data,
                   renewable_data, scenarios_results>>
    /\ passes' = passes
    /\ ScenUnchanged

\* scenario_results['summary_metrics'] = self._calculate_scenario_summary(...)
ScenSummary ==
    /\ s_pc = "analyzing" /\ LoopDone
    /\ IF SummaryRaises(scenario_results.annual_results)
       THEN /\ s_pc' = "raised"
            /\ UNCHANGED scenario_results
       ELSE /\ scenario_results' =
                   [scenario_results EXCEPT !.summary_metrics =
                       calculate_scenario_summary(scenario_results.annual_results)]
            /\ s_pc' = "summarized"
    /\ UNCHANGED <<fs, run_no, scenario_name, years, np_random, demand_data,
                   renewable_data, year_idx, scenarios_results>>
    /\ passes' = passes
    /\ ScenUnchanged

\* scenario_results['environmental_progress'] = self._track_environmental_progress(...)
ScenProgress ==
    /\ s_pc = "summarized"
    /\ IF ProgressRaises(scenario_results.annual_results)
       THEN /\ s_pc' = "raised"
            /\ UNCHANGED scenario_results
       ELSE /\ scenario_results' =
                   [scenario_results EXCEPT !.environmental_progress =
                       track_environmental_progress(scenario_results.annual_results)]
            /\ s_pc' = "tracked"
    /\ UNCHANGED <<fs, run_no, scenario_name, years, np_random, demand_data,
                   renewable_data, year_idx, scenarios_results>>
    /\ passes' = passes
    /\ ScenUnchanged

\* return scenario_results; run_scenario_comparison stores it under the
\* scenario's name and goes on to the next scenario
ScenReturn ==
    /\ s_pc = "tracked"
    /\ scenarios_results' = Append(scenarios_results, scenario_results)
    /\ IF script = "run_scenario_comparison" /\ run_no < Len(ScenarioOrder)
       THEN run_no' = run_no + 1 /\ s_pc' = "start"
       ELSE run_no' = run_no /\ s_pc' = "returned"
    /\ UNCHANGED <<fs, scenario_name, years, np_random, demand_data,
                   renewable_data, year_idx, scenario_results>>
    /\ passes' = passes
    /\ ScenUnchanged

\* run_scenario_comparison: json.dump of scenarios_results, then the summary
ScenSerialize ==
    /\ script = "run_scenario_comparison" /\ s_pc = "returned"
    /\ fs' = fs \cup {"results/scenario_comparison_2050.json"}
    /\ s_pc' = "done"
    /\ UNCHANGED <<run_no, scenario_name, years, np_random, demand_data,
                   renewable_data, year_idx, scenario_results, scenarios_results>>
    /\ passes' = passes
    /\ ScenUnchanged

(***************************************************************************)
(* The generation passes of a constructed TwoRegionEnergyModel, called any *)
(* number of times in any order, with other users of numpy's global        *)
(* generator running in between                                            *)
(***************************************************************************)

\* bound: the number of generation passes a behaviour calls
MaxPasses == 3

\* bound: the furthest position other code leaves the generator at
MaxOtherDraws == 1

GenUnchanged ==
    UNCHANGED <<script, fs, main_vars, load_vars, call, ret, s_pc, run_no,
                scenario_name, years, seed_stream, demand_given, demand_data,
                renewable_data, year_idx, scenario_results, scenarios_results>>

\* model.generate_demand_patterns()
GenDemandPatterns ==
    /\ script = "profile_generator" /\ s_pc = "constructed"
    /\ Len(passes) < MaxPasses
    /\ passes' = Append(passes, [pass |-> "generate_demand_patterns",
                                 foreign |-> np_random.stream # seed_stream,
                                 value |-> GenerateDemandPatterns(years, np_random)])
    /\ np_random' = AfterDemandPatterns(years, np_random)
    /\ GenUnchanged

\* model.generate_renewable_profiles()
GenRenewableProfiles ==
    /\ script = "profile_generator" /\ s_pc = "constructed"
    /\ Len(passes) < MaxPasses
    /\ passes' = Append(passes, [pass |-> "generate_renewable_profiles",
                                 foreign |-> np_random.stream # seed_stream,
                                 value |-> GenerateRenewableProfiles(np_random)])
    /\ np_random' = AfterRenewableProfiles(np_random)
    /\ GenUnchanged

\* other code seeds numpy's global generator or draws from it
GenOtherDraws ==
    /\ script = "profile_generator" /\ s_pc = "constructed"
    /\ \E s \in 1..NStreams, n \in 0..MaxOtherDraws :
           /\ [stream |-> s, pos |-> n] # np_random
           /\ np_random' = [stream |-> s, pos |-> n]
    /\ passes' = passes
    /\ GenUnchanged

(***************************************************************************)
(* A single method call on a constructed TwoRegionEnergyModel              *)
(***************************************************************************)

\* bounds: the years a method is called with
ProbeYearLo == 2022
ProbeYearHi == 2052

\* bound: the daily demands of a region a method is called with are the
\* multiples of DemandStep below DemandStep * NDemands
NDemands == 3

DemandStep == 1717

ProbeDemands ==
    [{regions[i] : i \in DOMAIN regions} ->
        {[total_daily_mwh |-> DemandStep * k] : k \in 0..(NDemands - 1)}]

\* bound: the generation of a technology a method is called with is a
\* multiple of GenerationStep (1/200 MWh) below GenerationStep * NGenerations
NGenerations == 3

GenerationStep == 40000

\* the technologies of a mix a method is called with: the configured ones
\* and one the model has no parameters for
ProbeTechnologies == DOMAIN technologies \cup {"coal_plant"}

\* the generation mixes a method is called with; the empty mix is one
ProbeMixes ==
    UNION {[D -> {GenerationStep * k : k \in 0..(NGenerations - 1)}] :
              D \in SUBSET ProbeTechnologies}

\* bound: the emissions of a year of the annual results a method is called
\* with are the multiples of EmissionStep (1/200 kg) below
\* EmissionStep * NEmissions
NEmissions == 11

EmissionStep == 20000000

\* what annual_results may hold for a year: the empty dict of a year without
\* demand, or a result with its emissions
ProbeResults ==
    {<<>>} \cup {[emissions |-> [total_emissions_tons |-> EmissionStep * k]] :
                    k \in 0..(NEmissions - 1)}

\* the annual results a method is called with: the base year or not, then
\* one of the target years
ProbeAnnualResults ==
    {base \o <<[year |-> y, result |-> r]>> :
        base \in {<<>>} \cup {<<[year |-> 2025, result |-> b]>> : b \in ProbeResults},
        y \in {2030, 2040, 2050}, r \in ProbeResults}

\* bound: the hourly demand of a region in the years a summary is asked for
\* is a multiple of PeakStep (MW), up to PeakStep * NPeaks
NPeaks == 2

PeakStep == 80

\* a demand table of one year whose regions draw the same power every hour
FlatDemand(year, industrial, residential) ==
    [y \in {year} |-> [Industrial |-> [h \in 1..24 |-> industrial],
                       Residential |-> [h \in 1..24 |-> residential]]]

\* what _analyze_year returns for a year: the empty dict of a year without
\* demand, or the result of a day of flat demand
AnalyzedResults(year) ==
    {<<>>} \cup {analyze_year(name, year, FlatDemand(year, PeakStep * i, PeakStep * r)) :
                    name \in {"baseline", "battery_storage"},
                    i \in 1..NPeaks, r \in 1..NPeaks}

\* the annual results a summary is asked for: the last two analysed years
SummaryAnnualResults ==
    {<<[year |-> 2035, result |-> a], [year |-> 2040, result |-> b]>> :
        a \in AnalyzedResults(2035), b \in AnalyzedResults(2040)}

\* (1 + r) ** n for the discount rate r = 0.07, in 1/10000
RECURSIVE Compound(_)
Compound(n) == IF n = 0 THEN 10000 ELSE (Compound(n - 1) * 107) \div 100

\* crf = r * (1 + r)**n / ((1 + r)**n - 1), in 1/10000, for n > 0
CapitalRecoveryFactor(n) == (700 * Compound(n)) \div (Compound(n) - 10000)

\* float('inf')
Infinity == [kind |-> "inf"]

\* a finite LCOE
Finite(v) == [kind |-> "finite", value |-> v]

\* the rows of data/technology_costs.csv the processor and the visualizer
\* are given: capital cost in 1000 USD per MW, the other costs in USD per MWh
TechnologyCostRows ==
    [Technology : {"natural_gas_plant", "wind_turbine", "solar_pv"},
     Capital_Cost_USD_MW : {0, 1320},
     Lifetime_Years : {15, 25},
     Operating_Cost_USD_MWh : {12},
     Fuel_Cost_USD_MWh : {0, 38}]

\* the rows of data/technology_costs_battery_storage.csv the advanced
\* dashboard is given: CAPEX in 1000 USD per MW, capacity factor in 1/100
ScenarioCostRows ==
    [Technology : {"natural_gas_plant", "wind_turbine"},
     CAPEX_USD_per_MW : {0, 1320},
     Lifetime_Years : {15, 25},
     Capacity_Factor : {0, 35, 85},
     OPEX_Variable_USD_per_MWh : {12},
     Fuel_Cost_USD_per_MWh : {0, 38}]

\* the mean availability of a column of data/renewable_profiles.csv, in 1/100
MeanAvailabilities == {0, 22, 35}

\* cf of calculate_system_metrics, in 1/100
ProcessorCapacityFactor(tech_name, wind_cf, solar_cf) ==
    IF tech_name = "wind_turbine" THEN wind_cf         \* 'wind' in tech_name
    ELSE IF tech_name = "solar_pv" THEN solar_cf       \* 'solar' in tech_name
    ELSE 85

\* lcoe of calculate_system_metrics for a row, in whole USD per MWh;
\* annual_energy in 1/100 MWh
ProcessorLcoe(row, wind_cf, solar_cf) ==
    LET cf == ProcessorCapacityFactor(row.Technology, wind_cf, solar_cf)
        crf == CapitalRecoveryFactor(row.Lifetime_Years)
        annual_capital_cost == row.Capital_Cost_USD_MW * crf     \* 1/10 USD
        annual_energy == cf * 8760
        annual_om_cost == row.Operating_Cost_USD_MWh * annual_energy
        annual_fuel_cost == row.Fuel_Cost_USD_MWh * annual_energy
    IN  IF annual_energy > 0
        THEN Finite((annual_capital_cost * 10 + annual_om_cost + annual_fuel_cost)
                        \div annual_energy)
        ELSE Infinity

\* the LCOE of create_technology_cost_evolution divides by
\* row['Capacity_Factor'] * 8760 whatever its value: the fields of a row
\* of a frame with text columns are Python numbers, whose division by zero
\* raises ZeroDivisionError
DashboardLcoeRaises(row) == row.Capacity_Factor * 8760 = 0

\* lcoe of create_technology_cost_evolution for a row, when it does not
\* raise; in 1/1000 USD per MWh (annual_capex is CAPEX * crf / 1000)
DashboardLcoe(row) ==
    LET crf == CapitalRecoveryFactor(row.Lifetime_Years)
        annual_capex == row.CAPEX_USD_per_MW * crf             \* 1/10000 USD
    IN  Finite((annual_capex * 10) \div (row.Capacity_Factor * 8760)
                   + 1000 * row.OPEX_Variable_USD_per_MWh
                   + 1000 * row.Fuel_Cost_USD_per_MWh)

\* cf of create_technology_comparison, in 1/100
VisualizerCapacityFactor(tech_name) ==
    IF tech_name = "wind_turbine" THEN 35              \* 'wind' in row['Technology']
    ELSE IF tech_name = "solar_pv" THEN 22             \* 'solar' in row['Technology']
    ELSE 85

\* lcoe of create_technology_comparison for a row, in whole USD per MWh
VisualizerLcoe(row) ==
    LET crf == CapitalRecoveryFactor(row.Lifetime_Years)
        cf == VisualizerCapacityFactor(row.Technology)
        annual_capital == row.Capital_Cost_USD_MW * crf          \* 1/10 USD
        annual_om == row.Operating_Cost_USD_MWh * cf * 8760
        annual_fuel == row.Fuel_Cost_USD_MWh * cf * 8760
    IN  Finite((annual_capital * 10 + annual_om + annual_fuel) \div (cf * 8760))

Calls ==
    [method : {"_get_renewable_target"}, name : {"baseline"},
     year : ProbeYearLo..ProbeYearHi,
     total_demand : {[r \in {regions[i] : i \in DOMAIN regions} |->
                         [total_daily_mwh |-> 0]]}]
    \cup
    [method : {"_optimize_generation_mix"}, name : ScenarioNames,
     year : ProbeYearLo..ProbeYearHi, total_demand : ProbeDemands]
    \cup
    [method : {"calculate_emissions", "_calculate_renewable_share"},
     generation_mix : ProbeMixes]
    \cup
    [method : {"calculate_technology_costs"}, year : ProbeYearLo..ProbeYearHi]
    \cup
    [method : {"_track_environmental_progress"}, annual_results : ProbeAnnualResults]
    \cup
    [method : {"_calculate_scenario_summary"}, annual_results : SummaryAnnualResults]
    \cup
    [method : {"calculate_system_metrics"}, row : TechnologyCostRows,
     wind_cf : MeanAvailabilities, solar_cf : MeanAvailabilities]
    \cup
    [method : {"create_technology_cost_evolution"}, row : ScenarioCostRows]
    \cup
    [method : {"create_technology_comparison"}, row : TechnologyCostRows]

CallUnchanged == UNCHANGED <<script, fs, main_vars, scen_vars, load_vars, call, passes>>

\* model._get_renewable_target(year)
CallGetRenewableTarget ==
    /\ script = "method_call" /\ ret = None
    /\ call.method = "_get_renewable_target"
    /\ ret' = [kind |-> "returned", value |-> get_renewable_target(call.year)]
    /\ CallUnchanged

\* model._optimize_generation_mix(year, total_demand)
CallOptimizeGenerationMix ==
    /\ script = "method_call" /\ ret = None
    /\ call.method = "_optimize_generation_mix"
    /\ ret' = [kind |-> "returned",
               value |-> optimize_generation_mix(call.name, call.year,
                                                 SystemDemand(call.total_demand))]
    /\ CallUnchanged

\* model.calculate_emissions(generation_mix, year)
CallCalculateEmissions ==
    /\ script = "method_call" /\ ret = None
    /\ call.method = "calculate_emissions"
    /\ ret' = IF CalculateEmissionsRaises(call.generation_mix)
              THEN [kind |-> "raised", value |-> "KeyError"]
              ELSE [kind |-> "returned",
                    value |-> calculate_emissions(call.generation_mix)]
    /\ CallUnchanged

\* model._calculate_renewable_share(generation_mix)
CallCalculateRenewableShare ==
    /\ script = "method_call" /\ ret = None
    /\ call.method = "_calculate_renewable_share"
    /\ ret' = [kind |-> "returned",
               value |-> calculate_renewable_share(call.generation_mix)]
    /\ CallUnchanged

\* model.calculate_technology_costs(year)
CallCalculateTechnologyCosts ==
    /\ script = "method_call" /\ ret = None
    /\ call.method = "calculate_technology_costs"
    /\ ret' = [kind |-> "returned", value |-> calculate_technology_costs(call.year)]
    /\ CallUnchanged

\* model._track_environmental_progress(annual_results)
CallTrackEnvironmentalProgress ==
    /\ script = "method_call" /\ ret = None
    /\ call.method = "_track_environmental_progress"
    /\ ret' = IF ProgressRaises(call.annual_results)
              THEN [kind |-> "raised",
                    value |-> ProgressException(call.annual_results)]
              ELSE [kind |-> "returned",
                    value |-> track_environmental_progress(call.annual_results)]
    /\ CallUnchanged

\* model._calculate_scenario_summary(annual_results); max() of no year
\* raises ValueError
CallCalculateScenarioSummary ==
    /\ script = "method_call" /\ ret = None
    /\ call.method = "_calculate_scenario_summary"
    /\ ret' = IF SummaryRaises(call.annual_results)
              THEN [kind |-> "raised", value |-> "ValueError"]
              ELSE [kind |-> "returned",
                    value |-> calculate_scenario_summary(call.annual_results)]
    /\ CallUnchanged

\* the LCOE calculate_system_metrics reports for a technology row
CallProcessorLcoe ==
    /\ script = "method_call" /\ ret = None
    /\ call.method = "calculate_system_metrics"
    /\ ret' = [kind |-> "returned",
               value |-> ProcessorLcoe(call.row, call.wind_cf, call.solar_cf)]
    /\ CallUnchanged

\* the LCOE create_technology_cost_evolution plots for a technology row
CallDashboardLcoe ==
    /\ script = "method_call" /\ ret = None
    /\ call.method = "create_technology_cost_evolution"
    /\ ret' = IF DashboardLcoeRaises(call.row)
              THEN [kind |-> "raised", value |-> "ZeroDivisionError"]
              ELSE [kind |-> "returned", value |-> DashboardLcoe(call.row)]
    /\ CallUnchanged

\* the LCOE create_technology_comparison plots for a technology row
CallVisualizerLcoe ==
    /\ script = "method_call" /\ ret = None
    /\ call.method = "create_technology_comparison"
    /\ ret' = [kind |-> "returned", value |-> VisualizerLcoe(call.row)]
    /\ CallUnchanged

(***************************************************************************)
(* The loaders of the reporting layer.  A loader is run twice over the     *)
(* same files, each run a process of its own.  The content of a file that  *)
(* exists is not looked into: it is the same on both runs.                 *)
(***************************************************************************)

DashboardFiles ==
    {"results/dashboard_data.json", "results/capacity_results.csv",
     "results/generation_results.csv", "data/demand_patterns.csv",
     "data/renewable_profiles.csv", "data/technology_costs.csv"}

\* the files load_all_data and EnergySystemVisualizer.load_data read, in order
DataCsvFiles ==
    <<"data/demand_patterns.csv", "data/renewable_profiles.csv",
      "data/technology_costs.csv">>

FromFile(path) == [kind |-> "file", path |-> path, rows |-> <<>>]

EmptyFrame == [kind |-> "empty", path |-> "", rows |-> <<>>]

\* the capacity rows load_data makes up, in 1/1000 GW; np.random is not seeded
DashboardSyntheticCapacity(stream) ==
    [i \in DOMAIN SyntheticGrid |->
        LET tech == SyntheticGrid[i].technology
            year == SyntheticGrid[i].year
            z == StreamZ(stream, i - 1)
            cap == IF tech = "gas_plant" THEN 50 + (year - 2025) * 10 + 5 * z
                   ELSE IF tech = "wind_plant" THEN 30 + (year - 2025) * 15 + 3 * z
                   ELSE 20 + (year - 2025) * 20 + 4 * z
        IN  [region |-> SyntheticGrid[i].region, technology |-> tech,
             year |-> year, capacity_gw |-> Max(0, cap)]]

\* the generation rows load_data makes up, in 1/1000 GWa; they follow the
\* capacity rows in the stream
DashboardSyntheticGeneration(stream) ==
    [i \in DOMAIN SyntheticGrid |->
        LET tech == SyntheticGrid[i].technology
            year == SyntheticGrid[i].year
            z == StreamZ(stream, Len(SyntheticGrid) + i - 1)
            gen == IF tech = "gas_plant" THEN 40 + (year - 2025) * 5 + 2 * z
                   ELSE IF tech = "wind_plant" THEN 10 + (year - 2025) * 8 + 2 * z
                   ELSE 5 + (year - 2025) * 10 + z
        IN  [region |-> SyntheticGrid[i].region, technology |-> tech,
             year |-> year, generation_gwa |-> Max(0, gen)]]

\* load_data raises: regions, technologies and years are assigned only where
\* the capacity rows are made up, and the generation rows need them
LoadDataRaises(files) ==
    /\ "results/capacity_results.csv" \in files
    /\ "results/generation_results.csv" \notin files

\* dashboard.load_data, when it does not raise
load_data(files, stream) ==
    LET Table(path) == IF path \in files THEN FromFile(path) ELSE EmptyFrame
    IN  [kind |-> "returned",
         dashboard_data |->
             IF "results/dashboard_data.json" \in files
             THEN FromFile("results/dashboard_data.json")
             ELSE [kind |-> "fallback", path |-> "", rows |-> <<>>],
         capacity_df |->
             IF "results/capacity_results.csv" \in files
             THEN FromFile("results/capacity_results.csv")
             ELSE [kind |-> "synthetic", path |-> "",
                   rows |-> DashboardSyntheticCapacity(stream)],
         generation_df |->
             IF "results/generation_results.csv" \in files
             THEN FromFile("results/generation_results.csv")
             ELSE [kind |-> "synthetic", path |-> "",
                   rows |-> DashboardSyntheticGeneration(stream)],
         demand_df |-> Table("data/demand_patterns.csv"),
         renewable_df |-> Table("data/renewable_profiles.csv"),
         costs_df |-> Table("data/technology_costs.csv")]

\* load_all_data of EnergyDataProcessor and load_data of
\* EnergySystemVisualizer: True when the three files could be read
LoadAllData(files) == \A i \in DOMAIN DataCsvFiles : DataCsvFiles[i] \in files

\* calculate_system_metrics: None when the files could not be loaded
calculate_system_metrics(files) ==
    IF ~LoadAllData(files) THEN None ELSE [kind |-> "metrics"]

\* create_demand_visualization: returns without a figure when the files
\* could not be loaded
create_demand_visualization(files) ==
    IF ~LoadAllData(files) THEN None ELSE [kind |-> "figure"]

LoadUnchanged == UNCHANGED <<script, fs, main_vars, scen_vars, call_vars>>

\* one run of the dashboard's load_data; the generator of the process starts
\* wherever the operating system's entropy puts it
DashboardLoadData ==
    /\ script = "dashboard" /\ l_pc < 2
    /\ \E stream \in 1..NStreams :
        load_out' = Append(load_out,
                           IF LoadDataRaises(fs) THEN [kind |-> "raised"]
                           ELSE load_data(fs, stream))
    /\ l_pc' = l_pc + 1
    /\ LoadUnchanged

\* one run of EnergyDataProcessor().calculate_system_metrics()
ProcessorCalculateSystemMetrics ==
    /\ script = "data_analysis" /\ l_pc < 2
    /\ load_out' = Append(load_out, calculate_system_metrics(fs))
    /\ l_pc' = l_pc + 1
    /\ LoadUnchanged

\* one run of EnergySystemVisualizer().create_demand_visualization()
VisualizerCreateDemandVisualization ==
    /\ script = "visualize_results" /\ l_pc < 2
    /\ load_out' = Append(load_out, create_demand_visualization(fs))
    /\ l_pc' = l_pc + 1
    /\ LoadUnchanged

(***************************************************************************)
(* The specification                                                       *)
(***************************************************************************)

Scripts ==
    {"messageix_main", "run_scenario_comparison", "run_scenario_analysis",
     "profile_generator", "method_call", "dashboard", "data_analysis",
     "visualize_results"}

\* the files that may exist when a script starts
InitialFiles(s) ==
    IF s = "dashboard" THEN SUBSET DashboardFiles
    ELSE IF s \in {"data_analysis", "visualize_results"}
         THEN SUBSET {DataCsvFiles[i] : i \in DOMAIN DataCsvFiles}
    ELSE {{}}

YearSet == {ConstructedYears[i] : i \in DOMAIN ConstructedYears}

Init ==
    /\ script \in Scripts
    /\ fs \in InitialFiles(script)
    /\ m_pc = "start"
    /\ solved_scenario = None
    /\ solve_calls = 0
    /\ results = None
    /\ dashboard_data = None
    /\ s_pc = "start"
    /\ run_no = 1
    /\ scenario_name = ""
    /\ years = <<>>
    /\ seed_stream \in (IF script \in {"run_scenario_comparison", "run_scenario_analysis",
                                         "profile_generator"}
                        THEN 1..NStreams ELSE {1})
    /\ np_random = [stream |-> 1, pos |-> 0]
    /\ demand_given \in (IF script = "run_scenario_analysis"
                         THEN [YearSet -> GivenKinds]
                         ELSE [YearSet -> {"generated"}])
    /\ demand_data = <<>>
    /\ renewable_data = <<>>
    /\ year_idx = 0
    /\ scenario_results = <<>>
    /\ scenarios_results = <<>>
    /\ call \in (IF script = "method_call" THEN Calls ELSE {None})
    /\ ret = None
    /\ passes = <<>>
    /\ l_pc = 0
    /\ load_out = <<>>

Next ==
    \/ MainCreateModel
    \/ MainCreateModelRaises
    \/ MainSolveModel
    \/ MainSolveModelRaises
    \/ MainCloneRaises
    \/ MainExtractResults
    \/ MainSaveResults
    \/ ScenConstruct
    \/ ScenGenerate
    \/ ScenAnalyzeYear
    \/ ScenSummary
    \/ ScenProgress
    \/ ScenReturn
    \/ ScenSerialize
    \/ GenDemandPatterns
    \/ GenRenewableProfiles
    \/ GenOtherDraws
    \/ CallGetRenewableTarget
    \/ CallOptimizeGenerationMix
    \/ CallCalculateEmissions
    \/ CallCalculateRenewableShare
    \/ CallCalculateTechnologyCosts
    \/ CallTrackEnvironmentalProgress
    \/ CallCalculateScenarioSummary
    \/ CallProcessorLcoe
    \/ CallDashboardLcoe
    \/ CallVisualizerLcoe
    \/ DashboardLoadData
    \/ ProcessorCalculateSystemMetrics
    \/ VisualizerCreateDemandVisualization

Spec == Init /\ [][Next]_vars

(***************************************************************************)
(* The claims                                                              *)
(***************************************************************************)

MainEnded == script = "messageix_main" /\ m_pc \in {"done", "failed"}

\* C1: every run of main() ends with the final output produced: also when
\* the solve call or the model creation raises, save_results has written the
\* result files when main ends.
C1_OutputAlwaysProduced ==
    MainEnded =>
        /\ "results/dashboard_data.json" \in fs
        /\ dashboard_data # None

\* the solved scenario gives an incomplete result for a variable
Incomplete(sc, v) ==
    \/ v \notin VariablesList(sc)
    \/ sc[v].kind = "raise"
    \/ sc[v].rows = <<>>

\* C2: whenever the solved scenario gives an incomplete result for CAP_NEW or
\* ACT, extract_results substitutes placeholder records, so both
\* capacity_data and generation_data of the returned result are non-empty.
C2_PlaceholdersSubstituted ==
    (/\ script = "messageix_main" /\ m_pc \in {"extracted", "done"}
     /\ Incomplete(solved_scenario, "CAP_NEW") \/ Incomplete(solved_scenario, "ACT"))
        => /\ results.capacity_data # <<>>
           /\ results.generation_data # <<>>

\* solve() is invoked at most once in a run (the part of C3 that the code
\* keeps)
SolveAtMostOnce == solve_calls <= 1

\* C3: solve is attempted at most once in a run, and a failure of solve leads
\* to fallback values, never to a retry.
C3_SingleAttemptThenFallback ==
    /\ solve_calls <= 1
    /\ (script = "messageix_main" /\ m_pc = "failed" /\ solve_calls = 1)
           => "capacity_data" \in DOMAIN results

\* a year of the demand table handed to the loop fails or yields no result
SomeYearMalformed == \E y \in DOMAIN demand_given : demand_given[y] # "generated"

Produced(out) ==
    /\ out.kind \notin {"None", "raised"}
    /\ out.kind = "returned" =>
           \A f \in {"dashboard_data", "capacity_df", "generation_df",
                     "demand_df", "renewable_df", "costs_df"} : out[f].kind # "empty"

\* C5: whenever a requested file is absent the loader substitutes synthetic
\* data that is identical on every run and still produces its output.
C5_MissingInputSynthetic ==
    (/\ script \in {"dashboard", "data_analysis", "visualize_results"}
     /\ l_pc = 2
     /\ IF script = "dashboard" THEN fs # DashboardFiles ELSE ~LoadAllData(fs))
        => /\ Produced(load_out[1])
           /\ Produced(load_out[2])
           /\ load_out[1] = load_out[2]

ScenRunning == s_pc \in {"analyzing", "summarized", "tracked", "returned", "done"}

\* the years of annual_results, in insertion order
InsertedYears ==
    [i \in DOMAIN scenario_results.annual_results |->
        scenario_results.annual_results[i].year]

\* C6: the per-year results are emitted in ascending year order: each year of
\* annual_results is inserted after every smaller year, for the whole year
\* list of the model.
C6_AscendingYears ==
    ScenRunning =>
        /\ \A i, j \in DOMAIN InsertedYears : i < j => InsertedYears[i] < InsertedYears[j]
        /\ InsertedYears = SubSeq(years, 1, Len(InsertedYears))
        /\ s_pc # "analyzing" => InsertedYears = years

C6_Witness ==
    /\ script = "run_scenario_comparison" /\ s_pc = "tracked"
    /\ Len(scenario_results.annual_results) = 4
    /\ InsertedYears[1] = 2025 /\ InsertedYears[4] = 2040

PhaseRank(pc) ==
    CASE pc = "start" -> 0
      [] pc = "constructed" -> 1
      [] pc = "analyzing" -> 2
      [] pc = "summarized" -> 3
      [] pc = "tracked" -> 4
      [] pc = "returned" -> 5
      [] pc = "done" -> 6
      [] OTHER -> 7

\* a demand table restricted to one year
OnlyYear(demand, y) == [x \in DOMAIN demand \cap {y} |-> demand[x]]

\* the state of a scenario run agrees with the phase it is in
PhasesInOrder ==
    /\ (script = "run_scenario_comparison" /\ s_pc = "analyzing") =>
           \* Generate is complete before the first year is analysed
           /\ DOMAIN demand_data = {years[i] : i \in DOMAIN years}
           /\ \A y \in DOMAIN demand_data : \A r \in DOMAIN demand_data[y] :
                  Len(demand_data[y][r]) = 24
           /\ \A t \in DOMAIN renewable_data : Len(renewable_data[t]) = 24
           /\ scenario_results.summary_metrics = <<>>
    /\ s_pc \in {"summarized", "tracked"} =>
           \* every year is analysed before the aggregation
           /\ Len(scenario_results.annual_results) = Len(years)
           /\ scenario_results.summary_metrics # <<>>
    /\ s_pc = "summarized" => scenario_results.environmental_progress = <<>>
    /\ \A k \in DOMAIN scenarios_results :
           \* what is returned has been aggregated
           /\ scenarios_results[k].summary_metrics # <<>>
           /\ Len(scenarios_results[k].annual_results) = Len(years)
    /\ "results/scenario_comparison_2050.json" \in fs =>
           \* Emit comes last, after both scenarios have returned
           /\ s_pc = "done"
           /\ Len(scenarios_results) = Len(ScenarioOrder)
    /\ ScenRunning =>
           \* a year's result is computed from that year's inputs alone
           \A i \in DOMAIN scenario_results.annual_results :
               LET e == scenario_results.annual_results[i]
               IN  e.result = analyze_year(scenario_name, e.year,
                                           OnlyYear(demand_data, e.year))

\* a step of a scenario run moves forward through the phases; only the next
\* scenario of the comparison starts again
PhaseStep ==
    \/ PhaseRank(s_pc') >= PhaseRank(s_pc)
    \/ /\ script = "run_scenario_comparison"
       /\ s_pc = "tracked" /\ s_pc' = "start" /\ run_no' = run_no + 1

\* C7: a scenario run passes through Generate, Compute-per-year, Aggregate
\* and Emit in this order, re-enters no phase, and a year's computation reads
\* no other year's result.
C7_PhaseOrder == [](PhasesInOrder) /\ [][PhaseStep]_vars

C7_Witness ==
    /\ script = "run_scenario_comparison" /\ s_pc = "done"
    /\ "results/scenario_comparison_2050.json" \in fs
    /\ Len(scenarios_results) = 2

\* the renewable target share the specification gives, in 1/20
SpecTarget(year) ==
    IF year <= 2030 THEN 8 ELSE IF year <= 2040 THEN 14 ELSE 17

TargetReturned ==
    /\ script = "method_call" /\ call.method = "_get_renewable_target"
    /\ ret.kind = "returned"

\* C8: for every year the renewable target share is 0.40 when year <= 2030,
\* 0.70 when 2030 < year <= 2040 and 0.85 when year > 2040, and it is
\* non-decreasing in the year.
C8_RenewableTarget ==
    TargetReturned =>
        /\ call.year <= 2030 => ret.value = 8
        /\ (2030 < call.year /\ call.year <= 2040) => ret.value = 14
        /\ call.year > 2040 => ret.value = 17
        /\ \A y \in ProbeYearLo..call.year : get_renewable_target(y) <= ret.value

C8_Witness == TargetReturned /\ call.year = 2041 /\ ret.value = 17

\* the mixes the allocator has produced: (scenario name, year, system
\* demand, mix), from the analysed years of a run and from a direct call
AllocatedMixes ==
    (IF ScenRunning
     THEN {[name |-> scenario_name, year |-> e.year,
            d |-> SystemDemand(e.result.demand_analysis),
            mix |-> e.result.generation_mix] :
              e \in {scenario_results.annual_results[i] :
                        i \in {j \in DOMAIN scenario_results.annual_results :
                                  scenario_results.annual_results[j].result # <<>>}}}
     ELSE {})
    \cup
    (IF script = "method_call" /\ call.method = "_optimize_generation_mix"
        /\ ret.kind = "returned"
     THEN {[name |-> call.name, year |-> call.year,
            d |-> SystemDemand(call.total_demand), mix |-> ret.value]}
     ELSE {})

\* the baseline rules of the specification, generation in 1/200 MWh
BaselineRules(m) ==
    /\ DOMAIN m.mix = {"wind_turbine", "solar_pv", "natural_gas_plant"}
    /\ m.mix["wind_turbine"] = m.d * 3 * SpecTarget(m.year)
    /\ m.mix["solar_pv"] = m.d * 2 * SpecTarget(m.year)
    /\ m.mix["natural_gas_plant"] = m.d * (200 - SpecTarget(m.year) * 5)

\* C9: for the baseline variant, for every year and system demand d, the
\* allocator returns exactly wind = d*0.3*target, solar = d*0.2*target and
\* gas = d*(1 - target*0.5), and no storage entry.
C9_BaselineMix ==
    \A m \in AllocatedMixes : m.name = "baseline" => BaselineRules(m)

C9_Witness ==
    \E m \in AllocatedMixes :
        /\ m.name = "baseline" /\ m.year = 2035 /\ m.d > 0
        /\ script = "run_scenario_comparison"
        /\ m.mix["natural_gas_plant"] = m.d * 130

\* C10: for the scenario name 'battery_storage' the allocator returns
\* wind = d*0.4*target, solar = d*0.3*target, storage = d*0.1 and
\* gas = d*(1 - target*0.7); every other scenario name is allocated with the
\* baseline rules.
C10_StorageMix ==
    \A m \in AllocatedMixes :
        IF m.name = "battery_storage"
        THEN /\ DOMAIN m.mix = {"wind_turbine", "solar_pv", "lithium_battery",
                                "natural_gas_plant"}
             /\ m.mix["wind_turbine"] = m.d * 4 * SpecTarget(m.year)
             /\ m.mix["solar_pv"] = m.d * 3 * SpecTarget(m.year)
             /\ m.mix["lithium_battery"] = m.d * 20
             /\ m.mix["natural_gas_plant"] = m.d * (200 - SpecTarget(m.year) * 7)
        ELSE BaselineRules(m)

C10_Witness ==
    /\ \E m \in AllocatedMixes :
          /\ m.name = "battery_storage" /\ m.year = 2041 /\ m.d > 0
          /\ m.mix["lithium_battery"] = m.d * 20
          /\ m.mix["natural_gas_plant"] = m.d * 81
    /\ script = "method_call"

\* C11: the allocation is not normalised to the demand: whenever the allocator
\* has served the storage variant for a positive system demand, in any year,
\* the generation quantities of its mix do not add up to the demand; so there
\* are a variant, a year and a positive demand whose total differs from the
\* demand.
C11_MixNotNormalised ==
    \A m \in AllocatedMixes :
        (m.name = "battery_storage" /\ m.d > 0) => MixTotal(m.mix) # 200 * m.d

C11_Witness ==
    /\ script = "run_scenario_comparison"
    /\ \E m \in AllocatedMixes :
          /\ m.name = "battery_storage" /\ m.d > 0
          /\ MixTotal(m.mix) = 220 * m.d

\* the emission results calculate_emissions has returned, each with its mix:
\* from the analysed years of a run and from a direct call
EmissionResults ==
    (IF ScenRunning
     THEN {[mix |-> e.result.generation_mix, out |-> e.result.emissions] :
              e \in {scenario_results.annual_results[i] :
                        i \in {j \in DOMAIN scenario_results.annual_results :
                                  scenario_results.annual_results[j].result # <<>>}}}
     ELSE {})
    \cup
    (IF script = "method_call" /\ call.method = "calculate_emissions"
        /\ ret.kind = "returned"
     THEN {[mix |-> call.generation_mix, out |-> ret.value]}
     ELSE {})

\* the CO2 intensity of a configured technology, kg/MWh
SpecIntensity(t) ==
    CASE t = "natural_gas_plant" -> 354
      [] t = "wind_turbine" -> 11
      [] t = "solar_pv" -> 41
      [] t = "lithium_battery" -> 0

\* the sum of a mapping over the configured technologies it has
SumOverTechnologies(f) ==
    Get(f, "natural_gas_plant", 0) + Get(f, "wind_turbine", 0)
        + Get(f, "solar_pv", 0) + Get(f, "lithium_battery", 0)

\* C12: for every mix over the configured technologies, calculate_emissions
\* returns for each technology of the mix its generation times its CO2
\* intensity (generation in 1/200 MWh times kg/MWh: emissions in 1/200 kg),
\* a total equal to the sum of these, and, when the total generation is
\* positive, a carbon intensity of total emissions over total generation.
C12_EmissionsFormula ==
    \A e \in EmissionResults :
        /\ DOMAIN e.out.emissions_by_tech = DOMAIN e.mix
        /\ \A t \in DOMAIN e.mix :
               e.out.emissions_by_tech[t] = e.mix[t] * SpecIntensity(t)
        /\ e.out.total_emissions_tons = SumOverTechnologies(e.out.emissions_by_tech)
        /\ SumOverTechnologies(e.mix) > 0 =>
               e.out.carbon_intensity_kg_mwh =
                   Frac(e.out.total_emissions_tons, SumOverTechnologies(e.mix))

C12_Witness ==
    /\ script = "method_call" /\ call.method = "calculate_emissions"
    /\ ret.kind = "returned"
    /\ DOMAIN call.generation_mix = {"natural_gas_plant", "wind_turbine", "solar_pv"}
    /\ call.generation_mix["natural_gas_plant"] = GenerationStep
    /\ call.generation_mix["wind_turbine"] = GenerationStep
    /\ call.generation_mix["solar_pv"] = 2 * GenerationStep
    /\ ret.value.total_emissions_tons = 447 * GenerationStep
    /\ ret.value.carbon_intensity_kg_mwh = [num |-> 447, den |-> 4]

\* a call of calculate_emissions or _calculate_renewable_share with a mix over
\* the configured technologies that generates nothing
DegenerateCall ==
    /\ script = "method_call"
    /\ call.method \in {"calculate_emissions", "_calculate_renewable_share"}
    /\ ret # None
    /\ DOMAIN call.generation_mix \subseteq DOMAIN technologies
    /\ SumOverTechnologies(call.generation_mix) = 0

\* C13: for a mix whose total generation is 0, the empty mix included,
\* calculate_emissions returns carbon intensity 0 and renewable share 0 and
\* raises no exception; _calculate_renewable_share returns 0.
C13_DegenerateMix ==
    DegenerateCall =>
        /\ ret.kind = "returned"
        /\ call.method = "calculate_emissions" =>
               /\ ret.value.carbon_intensity_kg_mwh = [num |-> 0, den |-> 1]
               /\ ret.value.renewable_share = [num |-> 0, den |-> 1]
        /\ call.method = "_calculate_renewable_share" =>
               ret.value = [num |-> 0, den |-> 1]

C13_Witness ==
    /\ DegenerateCall /\ call.method = "calculate_emissions"
    /\ call.generation_mix = <<>>
    /\ ret.kind = "returned"
    /\ ret.value.renewable_share.num = 0

\* the renewable shares _calculate_renewable_share has returned, each with the
\* mix it is of
RenewableShares ==
    {[mix |-> e.mix, share |-> e.out.renewable_share] : e \in EmissionResults}
    \cup
    (IF script = "method_call" /\ call.method = "_calculate_renewable_share"
        /\ ret.kind = "returned"
     THEN {[mix |-> call.generation_mix, share |-> ret.value]}
     ELSE {})

\* C14: for every mix of non-negative generation quantities whose total
\* generation is positive, the renewable share lies in [0, 1].
C14_RenewableShareRange ==
    \A r \in RenewableShares :
        MixTotal(r.mix) > 0 =>
            /\ r.share.den > 0
            /\ 0 <= r.share.num
            /\ r.share.num <= r.share.den

C14_Witness ==
    /\ script = "method_call" /\ call.method = "_calculate_renewable_share"
    /\ \E r \in RenewableShares :
          /\ DOMAIN r.mix = {"wind_turbine", "solar_pv", "natural_gas_plant"}
          /\ r.mix["wind_turbine"] = 2 * GenerationStep
          /\ r.mix["solar_pv"] = GenerationStep
          /\ r.mix["natural_gas_plant"] = GenerationStep
          /\ r.share = [num |-> 3, den |-> 4]

\* the progress reports _track_environmental_progress has returned, each with
\* the annual results it is of: from a run and from a direct call
ProgressReports ==
    (IF s_pc \in {"tracked", "returned", "done"}
     THEN {[annual |-> scenario_results.annual_results,
            out |-> scenario_results.environmental_progress]}
     ELSE {})
    \cup
    (IF script = "method_call" /\ call.method = "_track_environmental_progress"
        /\ ret.kind = "returned"
     THEN {[annual |-> call.annual_results, out |-> ret.value]}
     ELSE {})

\* the emissions of a year of the annual results, 1/200 kg
EmissionsOf(annual, y) ==
    LET i == CHOOSE j \in DOMAIN annual : annual[j].year = y
    IN  annual[i].result.emissions.total_emissions_tons

\* the emissions the reductions are relative to: those of 2025, 1000 tons
\* when the annual results have none
SpecBaseline(annual) ==
    IF \E j \in DOMAIN annual :
           annual[j].year = 2025 /\ "emissions" \in DOMAIN annual[j].result
    THEN EmissionsOf(annual, 2025)
    ELSE 200000000

\* C15: for each tracked target year the report holds the target (2030: 0.50,
\* 2040: 0.75, 2050: 0.90), achieved_reduction = 1 - current / baseline, and
\* on_track, which is true exactly when achieved_reduction >= 0.9 * target.
C15_ProgressTracking ==
    \A p \in ProgressReports :
        /\ DOMAIN p.out = {2030, 2040, 2050} \cap {p.annual[j].year : j \in DOMAIN p.annual}
        /\ \A y \in DOMAIN p.out :
              LET b == SpecBaseline(p.annual)
                  achieved == Frac(b - EmissionsOf(p.annual, y), b)
                  band == CASE y = 2030 -> 450 [] y = 2040 -> 675 [] y = 2050 -> 810
              IN  /\ p.out[y].target_reduction =
                         (CASE y = 2030 -> 500 [] y = 2040 -> 750 [] y = 2050 -> 900)
                  /\ p.out[y].achieved_reduction = achieved
                  /\ p.out[y].on_track = FracGEPerMille(achieved, band)

\* baseline 1000 tons, current 600 tons, target 0.50: achieved 0.40, not on
\* track
C15_Witness ==
    /\ script = "method_call" /\ call.method = "_track_environmental_progress"
    /\ ret.kind = "returned"
    /\ SpecBaseline(call.annual_results) = 1000 * 200000
    /\ 2030 \in DOMAIN ret.value
    /\ EmissionsOf(call.annual_results, 2030) = 600 * 200000
    /\ ret.value[2030].achieved_reduction = [num |-> 2, den |-> 5]
    /\ ret.value[2030].on_track = FALSE

\* the cost tables calculate_technology_costs has returned, each with its
\* year: from the analysed years of a run and from a direct call
CostTables ==
    (IF ScenRunning
     THEN {[year |-> e.year, out |-> e.result.costs] :
              e \in {scenario_results.annual_results[i] :
                        i \in {j \in DOMAIN scenario_results.annual_results :
                                  scenario_results.annual_results[j].result # <<>>}}}
     ELSE {})
    \cup
    (IF script = "method_call" /\ call.method = "calculate_technology_costs"
        /\ ret.kind = "returned"
     THEN {[year |-> call.year, out |-> ret.value]}
     ELSE {})

\* base * (1 - rate)^n in whole USD, rate in 1/100: n factors (1 - rate)
\* applied to the base one after the other, or divided out of it for n < 0
SpecCapex(base, rate, n) ==
    LET up[k \in 0..Max(n, 0)] ==
            IF k = 0 THEN base ELSE (up[k - 1] * (100 - rate)) \div 100
        down[k \in 0..Max(-n, 0)] ==
            IF k = 0 THEN base ELSE (down[k - 1] * 100) \div (100 - rate)
    IN  IF n >= 0 THEN up[n] ELSE down[-n]

\* C16: for every technology and year y, calculate_technology_costs returns
\* capex = capex_base * (1 - learning_rate)^(y - 2025), which is the base at
\* 2025 and never more than the capex of the year before, and returns
\* opex_fixed, opex_variable, fuel_cost and co2_intensity as the technology's
\* parameter bundle has them.
C16_TechnologyCosts ==
    \A c \in CostTables :
        /\ DOMAIN c.out = DOMAIN technologies
        /\ \A t \in DOMAIN technologies :
              /\ c.out[t].capex = SpecCapex(technologies[t].capex_2025,
                                            technologies[t].learning_rate,
                                            c.year - 2025)
              /\ c.year = 2025 => c.out[t].capex = technologies[t].capex_2025
              /\ c.out[t].capex <= calculate_technology_costs(c.year - 1)[t].capex
              /\ c.out[t].opex_fixed = technologies[t].opex_fixed
              /\ c.out[t].opex_variable = technologies[t].opex_variable
              /\ c.out[t].fuel_cost = technologies[t].fuel_cost
              /\ c.out[t].co2_intensity = technologies[t].co2_intensity

C16_Witness ==
    /\ script = "method_call" /\ call.method = "calculate_technology_costs"
    /\ ret.kind = "returned" /\ call.year = 2027
    /\ ret.value["solar_pv"].capex = 708050
    /\ ret.value["natural_gas_plant"].capex = 950000
    /\ ret.value["solar_pv"].opex_fixed = 18000

\* the renewable profiles generate_renewable_profiles has returned: in a run
\* and in direct calls
RenewableProfiles ==
    (IF ScenRunning THEN {renewable_data} ELSE {})
    \cup {passes[i].value : i \in {j \in DOMAIN passes :
                                      passes[j].pass = "generate_renewable_profiles"}}

\* the deviates a stream may hold
Deviates == (0 - MaxDeviate)..MaxDeviate

\* the hours outside [6, 18)
DarkHours == {h \in 0..23 : h < 6 \/ h >= 18}

\* the solar availability of a dark hour is 0 for every deviate
DarkForEveryDeviate ==
    \A h \in DarkHours, z \in Deviates : SolarAvailability(h, z) = 0

\* C17: for every hour of 0..23 outside [6, 18) the generated solar
\* availability is exactly 0, whatever the deviate drawn for the hour.
C17_SolarDarkHours ==
    /\ \A p \in RenewableProfiles :
           \A i \in DOMAIN p.solar_pv :
               time_periods[i] \in DarkHours => p.solar_pv[i] = 0
    /\ DarkForEveryDeviate

C17_Witness ==
    /\ script = "profile_generator" /\ seed_stream = 2
    /\ \E p \in RenewableProfiles :
          /\ p.solar_pv[19] = 0        \* hour 18
          /\ p.solar_pv[18] > 0        \* hour 17
          /\ p.solar_pv[13] > 0        \* noon

\* the availabilities of every hour are in their ranges for every deviate
InRangeForEveryDeviate ==
    \A h \in 0..23, z \in Deviates :
        /\ 50 <= WindAvailability(h, z) /\ WindAvailability(h, z) <= 800
        /\ 0 <= SolarAvailability(h, z) /\ SolarAvailability(h, z) <= 900

\* C18: every generated wind availability lies in [0.05, 0.8] and every
\* generated solar availability in [0, 0.9], whatever the deviate drawn, and
\* a profile has exactly 24 values per technology.
C18_AvailabilityRanges ==
    /\ \A p \in RenewableProfiles :
           /\ DOMAIN p = {"wind_turbine", "solar_pv"}
           /\ Len(p.wind_turbine) = 24 /\ Len(p.solar_pv) = 24
           /\ \A i \in 1..24 :
                  /\ 50 <= p.wind_turbine[i] /\ p.wind_turbine[i] <= 800
                  /\ 0 <= p.solar_pv[i] /\ p.solar_pv[i] <= 900
    /\ InRangeForEveryDeviate

\* a profile in which both clamps of the wind availability and the upper
\* clamp of the solar availability act
C18_Witness ==
    /\ script = "profile_generator"
    /\ \E p \in RenewableProfiles :
          /\ \E i \in 1..24 : p.wind_turbine[i] = 800
          /\ \E i \in 1..24 : p.wind_turbine[i] = 50
          /\ \E i \in 1..24 : p.solar_pv[i] = 900

\* C19: two calls of a generation pass with the same seed and configuration
\* return identical outputs, whatever other code drew from the generator in
\* between and in whichever order the two passes are called.
C19_Reproducible ==
    \A i, j \in DOMAIN passes :
        passes[i].pass = passes[j].pass => passes[i].value = passes[j].value

\* demand, renewable, demand again, the last pass entered with the generator
\* on a foreign stream
C19_Witness ==
    /\ script = "profile_generator" /\ seed_stream = 2
    /\ Len(passes) = 3
    /\ passes[1].pass = "generate_demand_patterns"
    /\ passes[2].pass = "generate_renewable_profiles"
    /\ passes[3].pass = "generate_demand_patterns"
    /\ ~passes[1].foreign /\ passes[3].foreign

\* the demand profiles generate_demand_patterns has returned: in a run of the
\* comparison and in direct calls
DemandProfiles ==
    (IF script = "run_scenario_comparison" /\ ScenRunning THEN {demand_data} ELSE {})
    \cup {passes[i].value : i \in {j \in DOMAIN passes :
                                      passes[j].pass = "generate_demand_patterns"}}

\* (1 + growth_rate)^n in 1/10000, growth_rate 2.3 %
SpecGrowth(n) ==
    LET g[k \in 0..n] == IF k = 0 THEN 10000 ELSE (g[k - 1] * 10230) \div 10000
    IN  g[n]

\* base(year) = base(2025) * (1 + growth_rate)^(year - 2025), whole MW
SpecBase(base_2025, year) == (base_2025 * SpecGrowth(year - 2025)) \div 10000

\* the residential base of a year after the efficiency discount
\* (1 - 0.005 (year - 2025))
SpecAdjustedBase(year) ==
    (SpecBase(80, year) * (1000 - 5 * (year - 2025))) \div 1000

\* 24 values per region for every year of the model, and the industrial floor
ShapeAndIndustrialFloor(p) ==
    /\ DOMAIN p = YearSet
    /\ \A y \in DOMAIN p :
           /\ DOMAIN p[y] = {"Industrial", "Residential"}
           /\ Len(p[y].Industrial) = 24 /\ Len(p[y].Residential) = 24
           /\ \A i \in 1..24 : p[y].Industrial[i] >= (SpecBase(100, y) * 8) \div 10

\* C20: for every year of the model and both regions the profile holds 24
\* hourly values, every Industrial value is >= 80% of that year's industrial
\* base and every Residential value is >= 40% of that year's residential base
\* base(2025) * (1 + growth)^(year - 2025), whatever the random draws.
C20_DemandFloors ==
    \A p \in DemandProfiles :
        /\ ShapeAndIndustrialFloor(p)
        /\ \A y \in DOMAIN p : \A i \in 1..24 :
               p[y].Residential[i] >= (SpecBase(80, y) * 4) \div 10

\* C20 as amended: the residential floor is 40% of that year's residential
\* base after the efficiency discount (1 - 0.005 (year - 2025)).
C20_DemandFloorsAdjusted ==
    \A p \in DemandProfiles :
        /\ ShapeAndIndustrialFloor(p)
        /\ \A y \in DOMAIN p : \A i \in 1..24 :
               p[y].Residential[i] >= (SpecAdjustedBase(y) * 4) \div 10

\* a profile in which the industrial floor and the residential floor of 2040
\* are met with equality
C20_Witness ==
    \E p \in DemandProfiles :
        /\ \E i \in 1..24 : p[2040].Residential[i] = (SpecAdjustedBase(2040) * 4) \div 10
        /\ \E i \in 1..24 : p[2040].Industrial[i] = (SpecBase(100, 2040) * 8) \div 10


\* ---- the scenario summary ----

\* the summaries computed: by a scenario run, or by a call
Summaries ==
    IF /\ script \in {"run_scenario_comparison", "run_scenario_analysis"}
       /\ s_pc \in {"summarized", "tracked", "returned"}
    THEN {[annual |-> scenario_results.annual_results,
           summary |-> scenario_results.summary_metrics]}
    ELSE IF /\ script = "method_call" /\ ret # None /\ ret.kind = "returned"
            /\ call.method = "_calculate_scenario_summary"
    THEN {[annual |-> call.annual_results, summary |-> ret.value]}
    ELSE {}

\* the result of the final year of the analysed range
FinalYear(annual) == annual[Len(annual)].result

\* C21: the summary's peak_system_demand_2050 is the peak system demand of
\* the final year of the analysed range: the sum over the regions of that
\* year's regional peaks
C21_PeakOfFinalYear ==
    \A s \in Summaries :
        /\ "demand_analysis" \in DOMAIN FinalYear(s.annual)
        /\ s.summary.peak_system_demand_2050 = SystemPeak(FinalYear(s.annual))

\* ---- the levelized cost of energy ----

\* the capacity factor (1/100) an LCOE computation uses for its row
LcoeCapacityFactor ==
    IF call.method = "calculate_system_metrics"
    THEN ProcessorCapacityFactor(call.row.Technology, call.wind_cf, call.solar_cf)
    ELSE IF call.method = "create_technology_cost_evolution"
    THEN call.row.Capacity_Factor
    ELSE VisualizerCapacityFactor(call.row.Technology)

\* an LCOE computation has been made
LcoeComputed ==
    /\ script = "method_call" /\ ret # None
    /\ call.method \in {"calculate_system_metrics", "create_technology_cost_evolution",
                         "create_technology_comparison"}

\* C22: no LCOE computation raises a division fault: a technology whose
\* annual energy (capacity factor * 8760) is 0 gets the value infinity
C22_LcoeNeverRaises ==
    LcoeComputed =>
        /\ ret.kind = "returned"
        /\ LcoeCapacityFactor * 8760 = 0 => ret.value = Infinity

\* the years of annual_results whose result has the field
YearsWith(annual, field) ==
    {i \in DOMAIN annual : field \in DOMAIN annual[i].result}

\* the sum of total_emissions_tons over the years that have emissions
RECURSIVE SpecCumulativeEmissions(_, _)
SpecCumulativeEmissions(annual, I) ==
    IF I = {} THEN 0
    ELSE LET i == CHOOSE x \in I : TRUE
         IN  annual[i].result.emissions.total_emissions_tons
                 + SpecCumulativeEmissions(annual, I \ {i})

\* m is the arithmetic mean of the renewable shares of the years I:
\* the differences share - m add up to 0
RECURSIVE SpecDeviation(_, _, _)
SpecDeviation(annual, I, m) ==
    IF I = {} THEN [num |-> 0, den |-> 1]
    ELSE LET i == CHOOSE x \in I : TRUE
             share == annual[i].result.renewable_share
         IN  FracAdd(Frac(share.num * m.den - m.num * share.den, share.den * m.den),
                     SpecDeviation(annual, I \ {i}, m))

\* C23: total_cumulative_emissions is the sum of total_emissions_tons and
\* average_renewable_share the arithmetic mean of the renewable shares over
\* the analysed years; a year whose result lacks the field is left out
C23_SummarySumAndMean ==
    \A s \in Summaries :
        /\ s.summary.total_cumulative_emissions
               = SpecCumulativeEmissions(s.annual, YearsWith(s.annual, "emissions"))
        /\ YearsWith(s.annual, "renewable_share") # {}
               => /\ s.summary.average_renewable_share.den > 0
                  /\ SpecDeviation(s.annual, YearsWith(s.annual, "renewable_share"),
                                   s.summary.average_renewable_share).num = 0

\* a run summarised three analysed years of different shares and left out
\* a year without result
C23_Witness ==
    \E s \in Summaries :
        /\ script = "run_scenario_analysis"
        /\ Cardinality(YearsWith(s.annual, "renewable_share")) = 3
        /\ Cardinality(YearsWith(s.annual, "emissions")) = 3
        /\ Len(s.annual) = 4
        /\ \E i, j \in YearsWith(s.annual, "renewable_share") :
               s.annual[i].result.renewable_share # s.annual[j].result.renewable_share
        /\ s.summary.total_cumulative_emissions > 0

\* ---- the allocator's balance and realised share ----

\* the sum of the entries of a mix, whatever its technologies
RECURSIVE SpecTotal(_, _)
SpecTotal(mix, T) ==
    IF T = {} THEN 0
    ELSE LET t == CHOOSE x \in T : TRUE
         IN  mix[t] + SpecTotal(mix, T \ {t})

\* C24: for every year and demand d the baseline mix sums to d and the
\* storage-enabled mix to 1.1 * d, whatever the renewable target; every
\* entry of either mix is >= 0 when d >= 0 (generation in 1/200 MWh)
C24_EnergyBalance ==
    \A m \in AllocatedMixes :
        /\ SpecTotal(m.mix, DOMAIN m.mix)
               = IF m.name = "battery_storage" THEN 220 * m.d ELSE 200 * m.d
        /\ m.d >= 0 => \A t \in DOMAIN m.mix : m.mix[t] >= 0

\* a storage run has allocated two years of different targets and positive
\* demand
C24_Witness ==
    /\ script = "run_scenario_comparison"
    /\ \E m, n \in AllocatedMixes :
          /\ m.name = "battery_storage" /\ n.name = "battery_storage"
          /\ m.d > 0 /\ n.d > 0
          /\ SpecTarget(m.year) # SpecTarget(n.year)
          /\ SpecTotal(m.mix, DOMAIN m.mix) = 220 * m.d
          /\ SpecTotal(n.mix, DOMAIN n.mix) = 220 * n.d

\* the years a scenario run has analysed with a positive system demand
AnalysedYears ==
    IF script \in {"run_scenario_comparison", "run_scenario_analysis"} /\ ScenRunning
    THEN {[name |-> scenario_name, year |-> e.year,
           d |-> SystemDemand(e.result.demand_analysis),
           share |-> e.result.renewable_share] :
             e \in {scenario_results.annual_results[i] :
                       i \in {j \in DOMAIN scenario_results.annual_results :
                                 /\ scenario_results.annual_results[j].result # <<>>
                                 /\ SystemDemand(scenario_results.annual_results[j]
                                                     .result.demand_analysis) > 0}}}
    ELSE {}

\* a < b for two fractions of positive denominators
FracLess(a, b) == a.num * b.den < b.num * a.den

\* the share the other variant realises for the same year and demand
OtherVariantShare(a) ==
    calculate_renewable_share(
        optimize_generation_mix(IF a.name = "battery_storage" THEN "baseline"
                                ELSE "battery_storage", a.year, a.d))

\* C25: for every analysed year of positive demand the realised renewable
\* share is 0.5 * t in the baseline and 0.7 * t / 1.1 with storage, t the
\* year's target (in 1/20), whatever the demand; it is strictly below t, and
\* strictly higher with storage than without
C25_RealisedShare ==
    \A a \in AnalysedYears :
        /\ a.share = IF a.name = "battery_storage"
                     THEN Frac(7 * SpecTarget(a.year), 220)
                     ELSE Frac(SpecTarget(a.year), 40)
        /\ FracLess(a.share, [num |-> SpecTarget(a.year), den |-> 20])
        /\ IF a.name = "battery_storage"
           THEN FracLess(OtherVariantShare(a), a.share)
           ELSE FracLess(a.share, OtherVariantShare(a))

\* the storage run of a comparison has analysed 2035 (target 0.7):
\* share 0.49 / 1.1
C25_Witness ==
    /\ script = "run_scenario_comparison"
    /\ \E a \in AnalysedYears :
          /\ a.name = "battery_storage" /\ a.year = 2035
          /\ a.share = [num |-> 49, den |-> 110]
    /\ \E a, b \in AnalysedYears : a.year = b.year + 5 /\ a.d # b.d /\ a.share = b.share

\* ---- the analysed years ----

\* the scenario results that run_scenario_analysis has returned
ReturnedResults == {scenarios_results[i] : i \in DOMAIN scenarios_results}

ProgressCalled ==
    /\ script = "method_call" /\ ret # None
    /\ call.method = "_track_environmental_progress"

\* a scenario run has ended in an exception of _track_environmental_progress
ProgressRaisedInRun ==
    /\ script \in {"run_scenario_comparison", "run_scenario_analysis"}
    /\ s_pc = "raised"
    /\ scenario_results # <<>>
    /\ scenario_results.summary_metrics # <<>>

\* C27: _track_environmental_progress completes without raising for every
\* annual_results that _analyze_year can produce, an empty year result and a
\* zero baseline included, and reports exactly the target years of
\* {2030, 2040, 2050} that are keys of annual_results
C27_ProgressCompletes ==
    /\ ProgressCalled =>
          /\ ret.kind = "returned"
          /\ DOMAIN ret.value = {2030, 2040, 2050} \cap DictKeys(call.annual_results)
    /\ ~ProgressRaisedInRun

\* ---- the result of extract_results ----

\* extract_results has returned
Extracted == script = "messageix_main" /\ m_pc \in {"extracted", "done"}

\* the keys every result holds
ResultKeys ==
    {"total_cost", "capacity_data", "generation_data", "cost_breakdown",
     "technology_mix"}

\* C28: every return of extract_results (normal, with a failed capacity or
\* activity extraction, or the outer fallback) holds the five keys with a
\* total_cost that parses as a number, so that save_results takes every
\* field from the result; outside the fallback the cost_breakdown parts are
\* 0.70, 0.25 and 0.05 of total_cost (total_cost in 1/100, parts in 1/10000)
C28_ResultComplete ==
    Extracted =>
        /\ ResultKeys \subseteq DOMAIN results
        /\ results.total_cost \in Nat
        /\ DOMAIN results.cost_breakdown
               = {"investment_cost", "operational_cost", "fuel_cost"}
        /\ solved_scenario.OBJ.kind # "raise" =>
               /\ results.cost_breakdown.investment_cost * 10 = results.total_cost * 700
               /\ results.cost_breakdown.operational_cost * 4 = results.total_cost * 100
               /\ results.cost_breakdown.fuel_cost * 20 = results.total_cost * 100
        /\ m_pc = "done" =>
               /\ dashboard_data.objective_value = results.total_cost
               /\ \A k \in ResultKeys \ {"total_cost"} : dashboard_data[k] = results[k]

\* a result with a solved objective whose capacity extraction failed has
\* been saved: total_cost "123456.50"
C28_Witness ==
    /\ Extracted /\ m_pc = "done"
    /\ solved_scenario.OBJ.kind = "value" /\ solved_scenario.OBJ.lvl = 1234565
    /\ "CAP_NEW" \in VariablesList(solved_scenario)
    /\ solved_scenario.CAP_NEW.kind = "raise"
    /\ results.total_cost = 123457
    /\ results.cost_breakdown.investment_cost = 8641990
    /\ results.capacity_data = <<>>

\* ---- the dashboard's loader ----

\* the tables load_data returns
LoadedTables ==
    {"dashboard_data", "capacity_df", "generation_df", "demand_df",
     "renewable_df", "costs_df"}

\* C29: for every combination of present and absent input files
\* dashboard.load_data returns its six tables without raising; the
\* generation fallback does not depend on the capacity file being absent
C29_LoadDataTotal ==
    script = "dashboard" =>
        \A i \in DOMAIN load_out :
            /\ load_out[i].kind = "returned"
            /\ LoadedTables \subseteq DOMAIN load_out[i]
            /\ "results/generation_results.csv" \notin fs
                   => load_out[i].generation_df.kind = "synthetic"

\* ---- the two scenarios of a comparison ----

\* both scenarios of a comparison have generated their inputs
BothGenerated == script = "run_scenario_comparison" /\ Len(passes) = 4

\* both scenarios of a comparison have returned their result
BothReturned == script = "run_scenario_comparison" /\ Len(scenarios_results) = 2

\* the fields of a year's result that do not come from the generation mix
InputFields == {"demand_analysis", "costs"}

\* C30: the scenario name does not influence the generated inputs: in one
\* comparison the demand profile, the renewable profile and the per-year
\* cost snapshots of baseline and battery_storage are the same, and the two
\* results differ only in the generation mix and the emissions and
\* renewable share derived from it
C30_SameInputs ==
    /\ BothGenerated =>
          /\ passes[3].pass = passes[1].pass /\ passes[3].value = passes[1].value
          /\ passes[4].pass = passes[2].pass /\ passes[4].value = passes[2].value
    /\ BothReturned =>
          LET b == scenarios_results[1]
              s == scenarios_results[2]
          IN  /\ b.scenario_name = "baseline" /\ s.scenario_name = "battery_storage"
              /\ b.years = s.years
              /\ Len(b.annual_results) = Len(s.annual_results)
              /\ \A i \in DOMAIN b.annual_results :
                    /\ b.annual_results[i].year = s.annual_results[i].year
                    /\ \A f \in InputFields :
                          b.annual_results[i].result[f] = s.annual_results[i].result[f]
              /\ b.summary_metrics.peak_system_demand_2050
                     = s.summary_metrics.peak_system_demand_2050
              /\ b.summary_metrics.demand_growth_factor
                     = s.summary_metrics.demand_growth_factor
              /\ \A y \in DOMAIN b.environmental_progress :
                     b.environmental_progress[y].target_reduction
                         = s.environmental_progress[y].target_reduction

\* a comparison on a stream of non-zero deviates has returned both results,
\* which differ in the generation mix of every year
C30_Witness ==
    /\ BothGenerated /\ BothReturned /\ seed_stream = 2
    /\ passes[1].pass = "generate_demand_patterns"
    /\ passes[3].value = passes[1].value
    /\ \A i \in DOMAIN scenarios_results[1].annual_results :
          /\ scenarios_results[1].annual_results[i].result.generation_mix
                 # scenarios_results[2].annual_results[i].result.generation_mix
          /\ scenarios_results[1].annual_results[i].result.costs
                 = scenarios_results[2].annual_results[i].result.costs

=============================================================================
